---- MODULE Spec2Model ----
(***************************************************************************)
(* Model of the pool-backed audio blocks of web-audio-api-rs               *)
(* (src/buffer2.rs): the block pool `Alloc`, the reference-counted,        *)
(* copy-on-write `ChannelData` handles and the multi-channel               *)
(* `AudioBuffer`.                                                          *)
(*                                                                         *)
(* Every Rc<[f32; LEN]> is a block id; its strong count and its samples    *)
(* are kept per block, so that the count tests of make_mut and drop are    *)
(* evaluated on the counts the program sees, temporaries included.         *)
(***************************************************************************)
EXTENDS Integers, Sequences, FiniteSets, TLC

\* ---------------------------------------------------------------- bounds
\* Samples per block.  The program uses 128; the model keeps a short block.
LEN == 2
\* Blocks put in the pool by Alloc::with_capacity.
PoolCap == 1
\* Number of Rc blocks that may ever be created besides `zeroes`.
MaxBlocks == 2
\* Largest sample value (samples are small naturals standing for f32).
MaxSample == 2
\* Nodes registered after the context is built.
MaxNodes == 2
\* Messages the control threads pass to the facade after the context is built.
MaxCalls == 2
\* Render quanta processed.
MaxQuanta == 3

\* ---------------------------------------------------------------- constants
MAX_CHANNELS == 32

\* ---------------------------------------------------------------- state
VARIABLES
    data,       \* data[b]: the samples of block b
    rc,         \* rc[b]: Rc::strong_count of block b (0: not allocated / freed)
    nblocks,    \* number of blocks created so far besides zeroes
    pool,       \* AllocInner.pool: the free list (a Vec used as a stack)
    fresh,      \* number of blocks created by AllocInner::allocate on an empty pool
    ch,         \* ch[s]: the block of the ChannelData in slot s, or None
    bufs,       \* bufs[s]: the AudioBuffer in slot s, or None
    panicked,   \* an assert! or todo!() fired
    op,         \* the last operation, with what it observed
    \* ConcreteBaseAudioContextInner (context/concrete_base.rs)
    node_id_inc,                \* the id counter (AtomicU64)
    render_channel,             \* the messages sent to the render thread, oldest first
    queued_messages,            \* control messages that cannot be sent immediately
    queued_audio_listener_msgs, \* the buffered registrations of the AudioListener
    allocated,  \* the ids returned by fetch_add, in the order of the fetch_adds
    frames,     \* frames[t]: the register() calls thread t is inside, innermost last
    pc,         \* the next statement of ConcreteBaseAudioContext::new, while it runs
    phase,      \* "new" while ConcreteBaseAudioContext::new runs, then "built"
    calls,      \* calls[t]: the messages thread t passed to the facade, in call order
    offline,    \* ConcreteBaseAudioContextInner::offline
    max_channel_count,  \* ConcreteBaseAudioContextInner::max_channel_count
    channel_count,      \* the count of the destination node's ChannelConfig
    channel_config,     \* its count mode and its interpretation
    in_call,            \* in_call[t]: where thread t is in its calls for the listener
    disconnected,       \* the Receiver of render_channel was dropped
    \* OscillatorNode and OscillatorRenderer (node/oscillator.rs), Scheduler and
    \* Controller (control.rs)
    atomic,         \* atomic[c]: the value of the Arc'd atomic cell c
    osc,            \* the oscillator: its node, its renderer and the channel between them
    current_time,   \* RenderScope::current_time of the quantum being rendered
    turn,           \* the node the render thread processes next in this quantum
    controllers     \* controllers[h]: the Controller held in variable h

\* The block pool, its handles and the buffers.
bstate == <<data, rc, nblocks, pool, fresh, ch, bufs, panicked>>

\* The control facade.
cvars == <<node_id_inc, render_channel, queued_messages, queued_audio_listener_msgs,
           allocated, frames, pc, phase, calls, offline, max_channel_count, channel_count, channel_config,
           in_call, disconnected>>

\* The part of it that only the stepwise listener calls and the shutdown of
\* the render thread change.
tvars == <<in_call, disconnected>>

\* The oscillator, the render clock and the controllers.
ovars == <<atomic, osc, current_time, turn, controllers>>

vars == <<data, rc, nblocks, pool, fresh, ch, bufs, panicked, op,
          node_id_inc, render_channel, queued_messages, queued_audio_listener_msgs,
          allocated, frames, pc, phase, calls, offline, max_channel_count, channel_count,
          channel_config, in_call, disconnected,
          atomic, osc, current_time, turn, controllers>>

None == -1
zeroes == 0
BlockIds == 0..MaxBlocks
Samples == 0..MaxSample
\* The program's variables that hold a ChannelData (as a, b in test_pool)
\* and those that hold an AudioBuffer.
Handles == {"a", "b"}
Bufs == {"x", "y"}
Chans == 0..(MAX_CHANNELS - 1)
Discrete == "Discrete"
Speakers == "Speakers"

ZeroBlock == [i \in 1..LEN |-> 0]

\* The heap and the pool as one value, threaded through the helpers below.
World == [data |-> data, rc |-> rc, n |-> nblocks, pool |-> pool, fresh |-> fresh]

\* ---------------------------------------------------------------- Rc
\* Rc::new: a new heap block with strong count 1.
\* Past MaxBlocks the model has no block left: n exceeds the bound and the
\* step is not taken (see Fits).
RcNew(w, samples) ==
    LET b == IF w.n < MaxBlocks THEN w.n + 1 ELSE MaxBlocks IN
    [w |-> [w EXCEPT !.n = w.n + 1, !.data[b] = samples, !.rc[b] = 1], blk |-> b]

\* The world w is within the model's block bound.
InBounds(w) == w.n <= MaxBlocks

\* Rc::clone
RcClone(w, b) == [w EXCEPT !.rc[b] = @ + 1]

\* Dropping an Rc (the value is freed when the count reaches 0).
RcDrop(w, b) == [w EXCEPT !.rc[b] = @ - 1]

\* Rc::make_mut: clones the value into a new Rc unless the count is 1.
RcMakeMut(w, b) ==
    IF w.rc[b] = 1
    THEN [w |-> w, blk |-> b]
    ELSE LET r == RcNew(w, w.data[b]) IN [w |-> RcDrop(r.w, b), blk |-> r.blk]

\* ---------------------------------------------------------------- AllocInner
\* Mutant: a popped block is cleared before it is handed out.
AllocInner_allocate_Cleared(w) ==
    IF Len(w.pool) > 0
    THEN [w |-> [w EXCEPT !.pool = SubSeq(@, 1, Len(@) - 1),
                          !.data[w.pool[Len(w.pool)]] = ZeroBlock],
          blk |-> w.pool[Len(w.pool)]]
    ELSE LET r == RcNew(w, ZeroBlock) IN
         [w |-> [r.w EXCEPT !.fresh = @ + 1], blk |-> r.blk]

\* Mutant: the block handed out stays in the free list.
AllocInner_allocate_Peek(w) ==
    IF Len(w.pool) > 0
    THEN [w |-> w, blk |-> w.pool[Len(w.pool)]]
    ELSE LET r == RcNew(w, ZeroBlock) IN
         [w |-> [r.w EXCEPT !.fresh = @ + 1], blk |-> r.blk]

\* AllocInner::allocate: pop the free list, or create a block when it is empty.
AllocInner_allocate(w) ==
    IF Len(w.pool) > 0
    THEN [w |-> [w EXCEPT !.pool = SubSeq(@, 1, Len(@) - 1)], blk |-> w.pool[Len(w.pool)]]
    ELSE LET r == RcNew(w, ZeroBlock) IN
         [w |-> [r.w EXCEPT !.fresh = @ + 1], blk |-> r.blk]

\* Mutant: the freed block is not kept.
AllocInner_push_Lost(w, b) == w

\* AllocInner::push
AllocInner_push(w, b) == [w EXCEPT !.pool = Append(@, b)]

\* ---------------------------------------------------------------- ChannelData
\* ChannelData::is_silent
is_silent(b) == b = zeroes

\* ChannelData::clone (derived): one more owner of the same block.
ChannelData_clone(w, b) == RcClone(w, b)

\* Mutant: silence() hands out a block of the pool instead of `zeroes`.
ChannelData_silence_Allocated(w) == AllocInner_allocate(w)

\* ChannelData::silence and Alloc::silence: a handle to `zeroes`.
ChannelData_silence(w) == [w |-> RcClone(w, zeroes), blk |-> zeroes]

\* Mutant: the copy is made only from a third owner on.
MakeMutCopies_OffByOne(w, b) == w.rc[b] > 2

\* The guard of ChannelData::make_mut: the block is shared.
MakeMutCopies(w, b) == w.rc[b] # 1

\* Mutant: the samples are not copied into the block taken from the pool.
make_mut_NoCopy(w, b) ==
    IF MakeMutCopies(w, b)
    THEN LET a  == AllocInner_allocate(w)
             m  == RcMakeMut(a.w, a.blk)
             w2 == RcDrop(m.w, b)
         IN  RcMakeMut(w2, m.blk)
    ELSE RcMakeMut(w, b)

\* ChannelData::make_mut: the block the handle refers to afterwards.
make_mut(w, b) ==
    IF MakeMutCopies(w, b)
    THEN LET a  == AllocInner_allocate(w)
             m  == RcMakeMut(a.w, a.blk)
             w1 == [m.w EXCEPT !.data[m.blk] = w.data[b]]
             w2 == RcDrop(w1, b)
         IN  RcMakeMut(w2, m.blk)
    ELSE RcMakeMut(w, b)

\* Mutant: the block is reclaimed while another owner is left.
DropReclaims_OffByOne(w, b) == w.rc[b] <= 2

\* The guard of Drop for ChannelData: the handle is the last owner.
DropReclaims(w, b) == w.rc[b] = 1

\* Drop for ChannelData.
ChannelData_drop(w, b) ==
    IF DropReclaims(w, b)
    THEN RcDrop(AllocInner_push(RcClone(w, zeroes), b), zeroes)
    ELSE RcDrop(w, b)

\* Mutant: the sum is written into a's block without make_mut.
ChannelData_add_InPlace(w, a, b) ==
    IF is_silent(a)
    THEN [w |-> ChannelData_drop(ChannelData_clone(w, b), a), blk |-> b]
    ELSE IF ~is_silent(b)
    THEN [w |-> [w EXCEPT !.data[a] = [i \in 1..LEN |-> w.data[a][i] + w.data[b][i]]],
          blk |-> a]
    ELSE [w |-> w, blk |-> a]

\* ChannelData::add(&mut a, &b): the world and a's block afterwards.
\* The samples are summed through a's mutable view.
ChannelData_add(w, a, b) ==
    IF is_silent(a)
    THEN [w |-> ChannelData_drop(ChannelData_clone(w, b), a), blk |-> b]
    ELSE IF ~is_silent(b)
    THEN LET m == make_mut(w, a) IN
         [w |-> [m.w EXCEPT !.data[m.blk] =
                    [i \in 1..LEN |-> m.w.data[m.blk][i] + w.data[b][i]]],
          blk |-> m.blk]
    ELSE [w |-> w, blk |-> a]

\* ---------------------------------------------------------------- AudioBuffer
\* An AudioBuffer value: its 32 channel handles and its channel_count.
Buffer(channels, count) == [channels |-> channels, channel_count |-> count]

\* AudioBuffer::new(channel): 32 clones of the handle, which is dropped at
\* the end of the call.
AudioBuffer_new(w, c) ==
    LET w1 == [w EXCEPT !.rc[c] = @ + MAX_CHANNELS] IN
    [w |-> ChannelData_drop(w1, c), buf |-> Buffer([i \in Chans |-> c], 1)]

\* AudioBuffer::clone (derived): every one of the 32 handles is cloned.
AudioBuffer_clone(w, buf) ==
    [w EXCEPT !.rc = [b \in BlockIds |->
        @[b] + Cardinality({i \in Chans : buf.channels[i] = b})]]

\* Dropping an AudioBuffer drops its 32 handles, channel 0 first.
RECURSIVE DropChannels(_, _, _)
DropChannels(w, channels, i) ==
    IF i = MAX_CHANNELS \/ ~InBounds(w) THEN w
    ELSE DropChannels(ChannelData_drop(w, channels[i]), channels, i + 1)

AudioBuffer_drop(w, buf) == DropChannels(w, buf.channels, 0)

\* self.channels[i] = value: the old handle is dropped, `value` moves in.
SetChannel(wb, i, value) ==
    [w   |-> ChannelData_drop(wb.w, wb.buf.channels[i]),
     buf |-> [wb.buf EXCEPT !.channels[i] = value]]

\* self.channels[i] = self.channels[j].clone()
CopyChannel(wb, i, j) ==
    SetChannel([wb EXCEPT !.w = ChannelData_clone(@, wb.buf.channels[j])],
               i, wb.buf.channels[j])

\* self.channels[i] = silence.clone()
SilenceChannel(wb, i) ==
    SetChannel([wb EXCEPT !.w = ChannelData_clone(@, zeroes)], i, zeroes)

\* Mutant: the upmix loop does not run.
SilenceRange_None(wb, from, to) == wb

\* Mutant: the upmix silences the last channel that was active.
SilenceRange_ClobberLast(wb, from, to) ==
    IF 0 < from /\ from < to THEN SilenceChannel(wb, from - 1) ELSE wb

\* for i in from..to { self.channels[i] = silence.clone() }
RECURSIVE SilenceRange(_, _, _)
SilenceRange(wb, from, to) ==
    IF from >= to \/ ~InBounds(wb.w) THEN wb
    ELSE SilenceRange(SilenceChannel(wb, from), from + 1, to)

\* AudioBuffer::set_number_of_channels: assert!(n <= MAX_CHANNELS)
SetNumberAsserts(n) == n <= MAX_CHANNELS

set_number_of_channels(buf, n) == [buf EXCEPT !.channel_count = n]

\* AudioBuffer::mix: assert!(channels < MAX_CHANNELS)
MixAsserts(channels) == channels < MAX_CHANNELS

\* The pairs (number_of_channels, channels) that reach todo!() under Speakers.
MixTodo(count, channels) ==
    <<count, channels>> \notin {<<1, 2>>, <<1, 4>>, <<1, 6>>, <<2, 1>>}

\* The (2, 1) arm of mix: the average of left and right, written through the
\* mutable view of channel 0 while `right` is alive.
MixStereoToMono(wb) ==
    LET right == wb.buf.channels[1]
        w1    == ChannelData_clone(wb.w, right)
        m     == make_mut(w1, wb.buf.channels[0])
        w2    == [m.w EXCEPT !.data[m.blk] =
                    [i \in 1..LEN |-> (m.w.data[m.blk][i] + w1.data[right][i]) \div 2]]
    IN  [w   |-> ChannelData_drop(w2, right),
         buf |-> [wb.buf EXCEPT !.channel_count = 1, !.channels[0] = m.blk]]

\* The Speakers arms of mix that are implemented.
MixSpeakers(wb, count, channels) ==
    CASE <<count, channels>> = <<1, 2>> ->
            CopyChannel([wb EXCEPT !.buf.channel_count = 2], 1, 0)
      [] <<count, channels>> = <<1, 4>> ->
            SilenceChannel(SilenceChannel(
                CopyChannel([wb EXCEPT !.buf.channel_count = 4], 1, 0), 2), 3)
      [] <<count, channels>> = <<1, 6>> ->
            SilenceChannel(SilenceChannel(SilenceChannel(SilenceChannel(
                CopyChannel(wb, 2, 0), 0), 1), 3), 4)
      [] <<count, channels>> = <<2, 1>> ->
            MixStereoToMono(wb)

\* AudioBuffer::mix(channels, interpretation): the world, the buffer and
\* whether the call panicked.  `silence` lives until the call ends, also
\* when it ends in a panic.
mix(w, buf, channels, interpretation) ==
    IF ~MixAsserts(channels) THEN [w |-> w, buf |-> buf, panic |-> TRUE]
    ELSE IF buf.channel_count = channels THEN [w |-> w, buf |-> buf, panic |-> FALSE]
    ELSE
    LET s  == ChannelData_silence(w)
        wb == [w |-> s.w, buf |-> buf]
    IN  IF interpretation = Discrete
        THEN LET r == SilenceRange(wb, buf.channel_count, channels) IN
             [w |-> ChannelData_drop(r.w, zeroes),
              buf |-> [r.buf EXCEPT !.channel_count = channels], panic |-> FALSE]
        ELSE IF MixTodo(buf.channel_count, channels)
        THEN [w |-> ChannelData_drop(s.w, zeroes), buf |-> buf, panic |-> TRUE]
        ELSE LET r == MixSpeakers(wb, buf.channel_count, channels) IN
             [w |-> ChannelData_drop(r.w, zeroes), buf |-> r.buf, panic |-> FALSE]

\* AudioBuffer::make_silent
make_silent(w, buf) ==
    LET s == ChannelData_silence(w)
        r == SetChannel([w |-> s.w, buf |-> [buf EXCEPT !.channel_count = 1]], 0, zeroes)
    IN  r

\* AudioBuffer::force_mono
force_mono(buf) == [buf EXCEPT !.channel_count = 1]

\* self.channels[i].deref_mut()[k] = v
WriteChannel(wb, i, k, v) ==
    LET m == make_mut(wb.w, wb.buf.channels[i]) IN
    [w   |-> [m.w EXCEPT !.data[m.blk][k] = v],
     buf |-> [wb.buf EXCEPT !.channels[i] = m.blk]]

\* The zip/take loop of AudioBuffer::add: s.add(o) on the first `channels`
\* channels.  sm, om: the channels of self_mixed and other_mixed.
RECURSIVE AddChannels(_, _, _, _, _)
AddChannels(w, sm, om, i, channels) ==
    IF i >= channels \/ i >= MAX_CHANNELS \/ ~InBounds(w) THEN [w |-> w, channels |-> sm]
    ELSE LET r == ChannelData_add(w, sm[i], om[i]) IN
         AddChannels(r.w, [sm EXCEPT ![i] = r.blk], om, i + 1, channels)

\* The second operand of AudioBuffer::add, before it is mixed: the code
\* clones `self` here.
OtherOperand(self, other) == self

Max(a, b) == IF a >= b THEN a ELSE b

\* AudioBuffer::add, the zip/take/for_each over the two mixed buffers m1
\* (self_mixed) and m2 (other_mixed); other_mixed is dropped at the end.
AddMixed(m1, m2, channels) ==
    LET a == AddChannels(m2.w, m1.buf.channels, m2.buf.channels, 0, channels) IN
    [w |-> AudioBuffer_drop(a.w, m2.buf),
     buf |-> [m1.buf EXCEPT !.channels = a.channels], panic |-> FALSE]

\* AudioBuffer::add after other_mixed.mix(..): a panic in mix unwinds,
\* dropping other_mixed and self_mixed.
AddAfterOtherMix(m1, m2, channels) ==
    IF m2.panic
    THEN [w |-> AudioBuffer_drop(AudioBuffer_drop(m2.w, m2.buf), m1.buf),
          buf |-> None, panic |-> TRUE]
    ELSE AddMixed(m1, m2, channels)

\* AudioBuffer::add after self_mixed.mix(..): a panic in mix unwinds,
\* dropping self_mixed; otherwise the second operand o is cloned and mixed.
AddAfterSelfMix(m1, o, channels, interpretation) ==
    IF m1.panic
    THEN [w |-> AudioBuffer_drop(m1.w, m1.buf), buf |-> None, panic |-> TRUE]
    ELSE AddAfterOtherMix(m1, mix(AudioBuffer_clone(m1.w, o), o, channels, interpretation),
                          channels)

\* self_mixed = self.clone(); self_mixed.mix(channels, interpretation)
AddSelfMix(w, self, o, channels, interpretation) ==
    AddAfterSelfMix(mix(AudioBuffer_clone(w, self), self, channels, interpretation),
                    o, channels, interpretation)

\* AudioBuffer::add(&self, &other, interpretation): the returned buffer.
AudioBuffer_add(w, self, other, interpretation) ==
    AddSelfMix(w, self, OtherOperand(self, other),
               Max(self.channel_count, other.channel_count), interpretation)

\* ---------------------------------------------------------------- context
\* The reserved node ids.  They are declared in context/mod.rs; the values are
\* those the specification gives (0, 1 and 2..=10), and
\* ConcreteBaseAudioContext::new asserts that the counter ends at
\* LISTENER_PARAM_IDS.end.
DESTINATION_NODE_ID == 0
LISTENER_NODE_ID == 1
LISTENER_PARAM_IDS_start == 2
LISTENER_PARAM_IDS_end == 11
LISTENER_PARAM_IDS == LISTENER_PARAM_IDS_start..(LISTENER_PARAM_IDS_end - 1)

\* The hidden input port of a node: usize::MAX.
usize_MAX == -1

\* The control threads.  ConcreteBaseAudioContext::new runs on MainThread.
Threads == {"t1", "t2"}
MainThread == "t1"

\* in_call[t] of a thread that is in no call for the listener: whether
\* ensure_audio_listener_present has returned to it, and the calls it made.
Outside(ensured, n) == [fn |-> "none", ensured |-> ensured, n |-> n]

\* ControlMessage
RegisterNode(id) == [type |-> "RegisterNode", id |-> id]
ConnectNode(from, to, output, input) ==
    [type |-> "ConnectNode", from |-> from, to |-> to, output |-> output, input |-> input]
DisconnectNode(from, to) == [type |-> "DisconnectNode", from |-> from, to |-> to]
DisconnectAll(from) == [type |-> "DisconnectAll", from |-> from]
FreeWhenFinished(id) == [type |-> "FreeWhenFinished", id |-> id]
AudioParamEvent(to, event) == [type |-> "AudioParamEvent", to |-> to, event |-> event]

\* Mutant: the message overtakes the messages waiting in the channel.
send_Overtaking(chan, t, fn, message) == <<[by |-> t, fn |-> fn, msg |-> message]>> \o chan

\* render_channel.send(message) by thread t inside the function fn: the
\* channel is first in, first out; every entry keeps who sent it.
send(chan, t, fn, message) == Append(chan, [by |-> t, fn |-> fn, msg |-> message])

\* connect
connect(chan, t, from, to, output, input) ==
    send(chan, t, "connect", ConnectNode(from, to, output, input))

\* Mutant: the counter is read but not advanced.
fetch_add_Stale(counter) == [id |-> counter, counter |-> counter]

\* node_id_inc.fetch_add(1, Ordering::SeqCst)
fetch_add(counter) == [id |-> counter, counter |-> counter + 1]

\* register: `id == LISTENER_NODE_ID || LISTENER_PARAM_IDS.contains(&id)`
IsListenerId(id) == id = LISTENER_NODE_ID \/ id \in LISTENER_PARAM_IDS

\* Mutant: the destination is not taken for a magic node.
IsMagic_NoDestination(id) == id = LISTENER_NODE_ID \/ id \in LISTENER_PARAM_IDS

\* mark_node_dropped: `magic`
IsMagic(id) ==
    id = DESTINATION_NODE_ID \/ id = LISTENER_NODE_ID \/ id \in LISTENER_PARAM_IDS

\* Sender::send on a channel whose Receiver may have been dropped: then the
\* message is handed back in an Err and the channel is as it was.
send_result(chan, closed, t, fn, message) ==
    IF closed THEN [chan |-> chan, err |-> TRUE]
    ELSE [chan |-> send(chan, t, fn, message), err |-> FALSE]

\* Mutant: the result of the send is unwrapped.
mark_node_dropped_Unwrap(chan, closed, t, id) ==
    IF IsMagic(id) THEN [chan |-> chan, panic |-> FALSE]
    ELSE LET r == send_result(chan, closed, t, "mark_node_dropped", FreeWhenFinished(id))
         IN  [chan |-> r.chan, panic |-> r.err]

\* mark_node_dropped(id): nothing is sent for a magic id; the result of the
\* send is bound to _r and not looked at.
mark_node_dropped(chan, closed, t, id) ==
    IF IsMagic(id) THEN [chan |-> chan, panic |-> FALSE]
    ELSE LET r == send_result(chan, closed, t, "mark_node_dropped", FreeWhenFinished(id))
         IN  [chan |-> r.chan, panic |-> FALSE]

\* Mutant: every queued ConnectNode is released, whatever its target.
resolve_queued_control_msgs_Any(chan, queued, t, id) ==
    [chan |-> chan \o [i \in 1..Len(queued) |->
                            [by |-> t, fn |-> "resolve_queued_control_msgs", msg |-> queued[i]]],
     queued |-> <<>>]

\* queued.remove(i)
Remove(queued, i) == SubSeq(queued, 1, i - 1) \o SubSeq(queued, i + 1, Len(queued))

\* resolve_queued_control_msgs, the loop from index i on: every queued
\* ConnectNode to `id` is removed and sent, in the order of the list.
RECURSIVE ResolveFrom(_, _, _, _, _)
ResolveFrom(chan, queued, t, id, i) ==
    IF i > Len(queued) THEN [chan |-> chan, queued |-> queued]
    ELSE IF queued[i].type = "ConnectNode" /\ queued[i].to = id
    THEN ResolveFrom(send(chan, t, "resolve_queued_control_msgs", queued[i]),
                     Remove(queued, i), t, id, i)
    ELSE ResolveFrom(chan, queued, t, id, i + 1)

resolve_queued_control_msgs(chan, queued, t, id) == ResolveFrom(chan, queued, t, id, 1)

\* ensure_audio_listener_present, the while loop: the buffered messages are
\* popped, last pushed first, and sent.
RECURSIVE SendPopped(_, _, _)
SendPopped(chan, t, msgs) ==
    IF Len(msgs) = 0 THEN chan
    ELSE SendPopped(send(chan, t, "ensure_audio_listener_present", msgs[Len(msgs)]),
                    t, SubSeq(msgs, 1, Len(msgs) - 1))

\* Mutant: the listener is connected to the destination before it is released.
ensure_audio_listener_present_ConnectFirst(chan, queued, listener_msgs, t) ==
    IF Len(listener_msgs) = 0
    THEN [chan |-> chan, queued |-> queued, released |-> FALSE]
    ELSE LET r == resolve_queued_control_msgs(
                      SendPopped(connect(chan, t, LISTENER_NODE_ID, DESTINATION_NODE_ID,
                                         0, usize_MAX), t, listener_msgs),
                      queued, t, LISTENER_NODE_ID)
         IN  [chan |-> r.chan, queued |-> r.queued, released |-> TRUE]

\* ensure_audio_listener_present: the channel and the pending list it leaves,
\* and whether it released anything.
ensure_audio_listener_present(chan, queued, listener_msgs, t) ==
    IF Len(listener_msgs) = 0
    THEN [chan |-> chan, queued |-> queued, released |-> FALSE]
    ELSE LET r == resolve_queued_control_msgs(SendPopped(chan, t, listener_msgs),
                                              queued, t, LISTENER_NODE_ID)
         IN  [chan |-> connect(r.chan, t, LISTENER_NODE_ID, DESTINATION_NODE_ID,
                               0, usize_MAX),
              queued |-> r.queued, released |-> TRUE]

\* connect_listener_to_panner, from its connect of output `output` on.
RECURSIVE ListenerToPanner(_, _, _, _)
ListenerToPanner(chan, t, panner, output) ==
    IF output > 8 THEN chan
    ELSE ListenerToPanner(connect(chan, t, LISTENER_NODE_ID, panner, output, output + 1),
                          t, panner, output + 1)

\* The messages connect_listener_to_panner passes to connect.
ListenerToPannerCalls(panner) ==
    [output \in 1..9 |-> ConnectNode(LISTENER_NODE_ID, panner, output - 1, output)]

\* ChannelConfig::set_count(v).  It is defined in node/mod.rs; a ChannelConfig
\* holds a count within 1..=MAX_CHANNELS, so a value outside is refused and
\* any other value is stored.
set_count(count, v) ==
    IF v \in 1..MAX_CHANNELS THEN [count |-> v, err |-> "none"]
    ELSE [count |-> count, err |-> "InvalidChannelCount"]

\* ChannelCountMode
Explicit == "Explicit"
ChannelCountModes == {"Max", "ClampedMax", Explicit}

\* Mutant: the mode is stored.
set_channel_count_mode_Stored(config, v) ==
    [config |-> [config EXCEPT !.mode = v], err |-> "none"]

\* AudioDestinationNode::set_channel_count_mode: panics whatever the argument;
\* the ChannelConfig is not touched.
set_channel_count_mode(config, v) ==
    [config |-> config, err |-> "InvalidStateError"]

\* Mutant: the count is not compared with max_channels_count.
set_channel_count_Unchecked(is_offline, max, count, v) ==
    IF is_offline /\ v # max THEN [count |-> count, err |-> "NotSupportedError"]
    ELSE set_count(count, v)

\* AudioDestinationNode::set_channel_count(v): the count it leaves and the
\* error it panics with.
set_channel_count(is_offline, max, count, v) ==
    IF is_offline /\ v # max THEN [count |-> count, err |-> "NotSupportedError"]
    ELSE IF v > max THEN [count |-> count, err |-> "IndexSizeError"]
    ELSE set_count(count, v)

\* ---------------------------------------------------------------- atomics
\* f64::MAX, the value a Scheduler starts with: later than any render time.
f64_MAX == 1000000

\* Arc::new(Atomic..::new(v)): a new shared cell holding v.
ArcNew(cells, v) == [cells |-> Append(cells, v), ptr |-> Len(cells) + 1]

\* Atomic..::load and Atomic..::store through a pointer to the cell.
load(cells, c) == cells[c]
store(cells, c, v) == [cells EXCEPT ![c] = v]

\* ---------------------------------------------------------------- Scheduler
\* Scheduler::new
Scheduler_new(cells) ==
    LET a == ArcNew(cells, f64_MAX)
        b == ArcNew(a.cells, f64_MAX)
    IN  [cells |-> b.cells, scheduler |-> [start |-> a.ptr, stop |-> b.ptr]]

\* Scheduler::clone (derived): both Arcs are cloned, the cells are shared.
Scheduler_clone(cells, s) == [cells |-> cells, scheduler |-> s]

get_start_at(cells, s) == load(cells, s.start)
get_stop_at(cells, s) == load(cells, s.stop)

\* Scheduler::start_at: the value is stored (the checks are a `todo`).
start_at(cells, s, start) == store(cells, s.start, start)

\* Scheduler::stop_at
stop_at(cells, s, stop) == store(cells, s.stop, stop)

\* ---------------------------------------------------------------- Controller
\* The atomic fields of a Controller besides its scheduler.
ControllerFields == {"loop_", "loop_start", "loop_end", "offset", "duration"}

\* Controller::new
Controller_new(cells) ==
    LET s  == Scheduler_new(cells)
        l  == ArcNew(s.cells, FALSE)
        ls == ArcNew(l.cells, 0)
        le == ArcNew(ls.cells, f64_MAX)
        o  == ArcNew(le.cells, f64_MAX)
        d  == ArcNew(o.cells, f64_MAX)
    IN  [cells |-> d.cells,
         controller |-> [scheduler |-> s.scheduler, loop_ |-> l.ptr, loop_start |-> ls.ptr,
                         loop_end |-> le.ptr, offset |-> o.ptr, duration |-> d.ptr]]

\* Mutant: the clone gets a cell of its own for every field.
Controller_clone_Deep(cells, c) ==
    LET l  == ArcNew(cells, load(cells, c.loop_))
        ls == ArcNew(l.cells, load(cells, c.loop_start))
        le == ArcNew(ls.cells, load(cells, c.loop_end))
        o  == ArcNew(le.cells, load(cells, c.offset))
        d  == ArcNew(o.cells, load(cells, c.duration))
    IN  [cells |-> d.cells,
         controller |-> [scheduler |-> c.scheduler, loop_ |-> l.ptr, loop_start |-> ls.ptr,
                         loop_end |-> le.ptr, offset |-> o.ptr, duration |-> d.ptr]]

\* Controller::clone (derived): every field is an Arc, so the clone points to
\* the cells (and to the Scheduler) of the original.
Controller_clone(cells, c) == [cells |-> cells, controller |-> c]

\* Controller::loop_, loop_start, loop_end, offset, duration
get(cells, c, field) == load(cells, c[field])

\* Controller::set_loop, set_loop_start, set_loop_end, set_offset, set_duration
set(cells, c, field, v) == store(cells, c[field], v)

\* ---------------------------------------------------------------- OscillatorNode
\* Option<PeriodicWave>: None, Some(periodic_wave)
NoWave == <<>>
Some(periodic_wave) == <<periodic_wave>>

\* No Controller and no oscillator (a variable not yet assigned).
NoController == [scheduler |-> None]
NoOsc == [node |-> None]

Sine == "Sine"
Square == "Square"
Sawtooth == "Sawtooth"
Triangle == "Triangle"
Custom == "Custom"
OscillatorType == {Sine, Square, Sawtooth, Triangle, Custom}

\* `type_ as u32`: the discriminant, in the order of the declaration.
as_u32(type) ==
    CASE type = Sine -> 0 [] type = Square -> 1 [] type = Sawtooth -> 2
      [] type = Triangle -> 3 [] type = Custom -> 4

\* impl From<u32> for OscillatorType
from_u32(i) ==
    CASE i = 0 -> Sine [] i = 1 -> Square [] i = 2 -> Sawtooth
      [] i = 3 -> Triangle [] i = 4 -> Custom [] OTHER -> "unreachable"

\* OscillatorNode::type_
type_(cells, node) == from_u32(load(cells, node.type_))

\* Mutant: Custom is stored like any other type.
set_type_CustomStored(cells, node, type) ==
    IF load(cells, node.type_) = as_u32(Custom) THEN [cells |-> cells, err |-> "none"]
    ELSE [cells |-> store(cells, node.type_, as_u32(type)), err |-> "none"]

\* Mutant: the type is stored also when the current type is Custom.
set_type_NotIgnored(cells, node, type) ==
    IF type = Custom THEN [cells |-> cells, err |-> "InvalidStateError"]
    ELSE [cells |-> store(cells, node.type_, as_u32(type)), err |-> "none"]

\* OscillatorNode::set_type: the cells it leaves and the error it panics with.
set_type(cells, node, type) ==
    IF type = Custom THEN [cells |-> cells, err |-> "InvalidStateError"]
    ELSE IF load(cells, node.type_) = as_u32(Custom) THEN [cells |-> cells, err |-> "none"]
    ELSE [cells |-> store(cells, node.type_, as_u32(type)), err |-> "none"]

\* OscillatorNode::set_periodic_wave, its first statement: the type becomes
\* Custom.  The send that follows is a step of its own (it waits while the
\* channel, of capacity 1, is full).
set_periodic_wave(cells, node) == store(cells, node.type_, as_u32(Custom))

\* crossbeam_channel::bounded(1)
ChannelCap == 1

\* OscillatorNode::new, the factory: the node, its renderer and the channel
\* between them.  A periodic wave given in the options is set on the node
\* before the renderer is handed over, when the channel is empty.
OscillatorNode_new(cells, options) ==
    LET t == ArcNew(cells, as_u32(options.type_))
        s == Scheduler_new(t.cells)
        c == Scheduler_clone(s.cells, s.scheduler)
        node == [type_ |-> t.ptr, scheduler |-> s.scheduler]
    IN  [cells |-> IF options.periodic_wave # NoWave THEN set_periodic_wave(c.cells, node)
                   ELSE c.cells,
         osc |-> [node |-> node,
                  renderer |-> [type_ |-> t.ptr, scheduler |-> c.scheduler, phase |-> 0,
                                started |-> FALSE, periodic_wave |-> NoWave],
                  channel |-> options.periodic_wave,
                  sending |-> NoWave]]

\* ---------------------------------------------------------------- OscillatorRenderer
\* Time is counted in half frames, so that a start or stop time may fall
\* between two frames: one frame lasts dt.
dt == 2
\* Frames per render quantum: the length of a block.
RENDER_QUANTUM_SIZE == LEN
\* The phase is counted in steps of the lookup table (1/TABLE_LENGTH_USIZE
\* of a period), and a sample in eighths (1.0 is One).
TABLE_LENGTH_USIZE == 8
One == 8
SINETABLE == <<0, 6, 8, 6, 0, -6, -8, -6>>
\* cfg!(test)
cfg_test == FALSE

\* OscillatorRenderer::unroll_phase
unroll_phase(phi) ==
    IF phi >= TABLE_LENGTH_USIZE THEN phi - TABLE_LENGTH_USIZE ELSE phi

\* OscillatorRenderer::poly_blep(t, dt, is_test), dt being the phase increment
poly_blep(t, d, is_test) ==
    IF is_test THEN 0
    ELSE IF t < d THEN (One * (2 * t * d - t * t - d * d)) \div (d * d)
    ELSE IF t > TABLE_LENGTH_USIZE - d
    THEN (One * ((t - TABLE_LENGTH_USIZE) * (t - TABLE_LENGTH_USIZE)
                 + 2 * (t - TABLE_LENGTH_USIZE) * d + d * d)) \div (d * d)
    ELSE 0

\* `floored as usize`: the cast of a negative float saturates at 0.
as_usize(floored) == IF floored < 0 THEN 0 ELSE floored

\* `SINETABLE[prev_index]`, `periodic_wave[prev_index]`: the index computed
\* from the phase is outside the table, and the indexing panics.
OutOfTable(phi) == as_usize(phi) >= TABLE_LENGTH_USIZE

\* The linear interpolation into a lookup table; the model's phases fall on
\* the table's entries, so that k is 0.
Interpolate(table, phi) ==
    LET prev_index == as_usize(phi)
        next_index == IF prev_index + 1 = TABLE_LENGTH_USIZE THEN 0 ELSE prev_index + 1
        k == 0
    IN  (table[prev_index + 1] * (One - k) + table[next_index + 1] * k) \div One

generate_sine(phi) == Interpolate(SINETABLE, phi)

generate_sawtooth(phi, phase_incr) ==
    LET p == unroll_phase(phi + TABLE_LENGTH_USIZE \div 2) IN
    (2 * p - One) - poly_blep(p, phase_incr, cfg_test)

generate_square(phi, phase_incr) ==
    (IF 2 * phi < TABLE_LENGTH_USIZE THEN One ELSE -One)
    + poly_blep(phi, phase_incr, cfg_test)
    - poly_blep(unroll_phase(phi + TABLE_LENGTH_USIZE \div 2), phase_incr, cfg_test)

generate_triangle(phi) ==
    LET sample == 2 * One - 4 * phi IN
    IF sample > One THEN 2 * One - sample
    ELSE IF sample < -One THEN -(2 * One) - sample
    ELSE sample

\* generate_custom, the periodic wave being there
generate_custom(phi, periodic_wave) == Interpolate(periodic_wave[1], phi)

\* The `match type_` of process.
Generate(type, phi, phase_incr, periodic_wave) ==
    CASE type = Sine -> generate_sine(phi)
      [] type = Sawtooth -> generate_sawtooth(phi, phase_incr)
      [] type = Square -> generate_square(phi, phase_incr)
      [] type = Triangle -> generate_triangle(phi)
      [] type = Custom -> generate_custom(phi, periodic_wave)

\* Mutant: the first sample is rendered at the phase the renderer holds.
FirstPhase_NoAdjust(st, start_time, phase_incr) == st.phase

\* The phase of the first sample rendered: when the start time lies between
\* the last frame and this one, the phase is advanced by that fraction.
FirstPhase(st, start_time, phase_incr) ==
    IF ~st.started /\ st.time > start_time
    THEN unroll_phase((phase_incr * (st.time - start_time)) \div dt)
    ELSE st.phase

\* Mutant: the frames before the start time are rendered too.
RenderFrom_NoStartTest(st, index, start_time, stop_time, type, wave, phase_incr) ==
    [st EXCEPT !.samples = [i \in 1..RENDER_QUANTUM_SIZE |->
                                Generate(type, unroll_phase(st.phase + (i - 1) * phase_incr),
                                         phase_incr, wave)],
               !.started = TRUE]

\* The loop of process over the frames of the quantum, from frame `index` on.
\* st: the time of the frame, the phase, `started`, the samples written and
\* whether the render thread panicked: generate_custom found no periodic wave
\* (unwrap of None), or the phase gave an index outside the lookup table.
RECURSIVE RenderFrom(_, _, _, _, _, _, _)
RenderFrom(st, index, start_time, stop_time, type, wave, phase_incr) ==
    IF index > RENDER_QUANTUM_SIZE \/ st.panic THEN st
    ELSE IF st.time < start_time \/ st.time >= stop_time
    THEN RenderFrom([st EXCEPT !.samples[index] = 0, !.time = @ + dt],
                    index + 1, start_time, stop_time, type, wave, phase_incr)
    ELSE IF \/ type = Custom /\ wave = NoWave
            \/ type \in {Sine, Custom} /\ OutOfTable(FirstPhase(st, start_time, phase_incr))
    THEN [st EXCEPT !.panic = TRUE, !.started = TRUE,
                    !.phase = FirstPhase(st, start_time, phase_incr)]
    ELSE RenderFrom(
            [st EXCEPT !.samples[index] =
                            Generate(type, FirstPhase(st, start_time, phase_incr),
                                     phase_incr, wave),
                       !.time = @ + dt,
                       !.started = TRUE,
                       !.phase = unroll_phase(FirstPhase(st, start_time, phase_incr)
                                              + phase_incr)],
            index + 1, start_time, stop_time, type, wave, phase_incr)

\* Mutant: a start time in the past is kept.
ClampStart_None(started, start_time, time) == start_time

\* `if !self.started && start_time < current_time { start_time = current_time }`
ClampStart(started, start_time, time) ==
    IF ~started /\ start_time < time THEN time ELSE start_time

\* The two early returns of process: "idle" (not started yet: silence, true),
\* "finished" (stopped: silence, false), else "no".
Finished(start_time, stop_time, time) ==
    IF start_time >= time + dt * RENDER_QUANTUM_SIZE THEN "idle"
    ELSE IF stop_time < time THEN "finished"
    ELSE "no"

\* Mutant: the number of channels of the output is left as it was.
OutputChannels_Kept(out) == out

\* `output.set_number_of_channels(1)`
OutputChannels(out) == set_number_of_channels(out, 1)

\* The playing branch of process, on the mutable view m of channel 0.
Play(m, out, cells, renderer, wave, time, phase_incr) ==
    LET st == RenderFrom([time |-> time, phase |-> renderer.phase,
                          started |-> renderer.started,
                          samples |-> m.w.data[m.blk], panic |-> FALSE],
                         1,
                         ClampStart(renderer.started,
                                    get_start_at(cells, renderer.scheduler), time),
                         get_stop_at(cells, renderer.scheduler),
                         from_u32(load(cells, renderer.type_)), wave, phase_incr)
    IN  [w |-> [m.w EXCEPT !.data[m.blk] = st.samples],
         buf |-> [out EXCEPT !.channels[0] = m.blk],
         renderer |-> [renderer EXCEPT !.periodic_wave = wave, !.phase = st.phase,
                                       !.started = st.started],
         ret |-> TRUE, panic |-> st.panic]

\* OscillatorRenderer::process for the quantum that begins at `time`, the
\* frequency param giving phase_incr on every frame: the pool, the output,
\* the renderer and the channel it leaves, and the value it returns.
process(w, out, cells, renderer, channel, time, phase_incr) ==
    LET wave == IF Len(channel) > 0 THEN Some(Head(channel)) ELSE renderer.periodic_wave
        rest == IF Len(channel) > 0 THEN Tail(channel) ELSE channel
        branch == Finished(get_start_at(cells, renderer.scheduler),
                           get_stop_at(cells, renderer.scheduler), time)
    IN  IF branch # "no"
        THEN make_silent(w, OutputChannels(out)) @@
             [renderer |-> [renderer EXCEPT !.periodic_wave = wave],
              channel |-> rest, ret |-> branch = "idle", panic |-> FALSE]
        ELSE Play(make_mut(w, OutputChannels(out).channels[0]), OutputChannels(out),
                  cells, renderer, wave, time, phase_incr) @@ [channel |-> rest]

\* ---------------------------------------------------------------- DestinationRenderer
\* DestinationRenderer::process: `*output = input.clone()` (the clone is made,
\* then the old output is dropped), and true is returned.
destination_process(w, input, output) ==
    [w |-> AudioBuffer_drop(AudioBuffer_clone(w, input), output), buf |-> input, ret |-> TRUE]

\* ---------------------------------------------------------------- steps
\* A step is taken only within the model's bounds.
Fits(w) ==
    /\ InBounds(w)
    /\ \A b \in 1..w.n : \A i \in 1..LEN : w.data[b][i] \in Samples

\* Install the world w as the next state.
Install(w) ==
    /\ data' = w.data
    /\ rc' = w.rc
    /\ nblocks' = w.n
    /\ pool' = w.pool
    /\ fresh' = w.fresh

\* An empty AudioBuffer variable.
NoBuf == Buffer([i \in Chans |-> None], None)

\* The arguments tried: channel counts for set_number_of_channels and mix,
\* channel indices, sample indices and values written in the buffer runs.
SetArgs == {0, 33}
MixArgs == {1, 2, 4, 6, 32}
ChanArgs == {0, 1}
WriteArgs == {1}
BufHandles == {"a"}
ShapeBufs == {"x"}
BufSampleArgs == {1}
SumMixArgs == {1, 2}
UpMixArgs == {2}
\* max_channel_count given to ConcreteBaseAudioContext::new.
MaxChannelArgs == {1, 2}
\* The variables that hold a Controller: the control thread's and the clone
\* given to the render thread.
ControllerVars == {"c", "r"}

\* Alloc::with_capacity(PoolCap), no handle yet.
BufInit ==
    /\ data = [b \in BlockIds |-> ZeroBlock]
    /\ rc = [b \in BlockIds |-> IF b <= PoolCap THEN 1 ELSE 0]
    /\ nblocks = PoolCap
    /\ pool = [i \in 1..PoolCap |-> i]
    /\ fresh = 0
    /\ ch = [s \in Handles |-> None]
    /\ bufs = [s \in Bufs |-> NoBuf]
    /\ panicked = FALSE
    /\ op = [name |-> "init"]

\* ConcreteBaseAudioContext::new, up to `let base = Self { .. }`: nothing is
\* registered yet.
CtxInit(is_offline, max) ==
    /\ node_id_inc = 0
    /\ render_channel = <<>>
    /\ queued_messages = <<>>
    /\ queued_audio_listener_msgs = <<>>
    /\ allocated = <<>>
    /\ frames = [t \in Threads |-> <<>>]
    /\ pc = 1
    /\ phase = "new"
    /\ calls = [t \in Threads |-> <<>>]
    /\ offline = is_offline
    /\ max_channel_count = max
    /\ channel_count = None
    /\ channel_config = None
    /\ in_call = [t \in Threads |-> Outside(FALSE, 0)]
    /\ disconnected = FALSE

\* No oscillator and no controller yet; rendering has not begun.
OscInit ==
    /\ atomic = <<>>
    /\ osc = NoOsc
    /\ current_time = 0
    /\ turn = "oscillator"
    /\ controllers = [h \in ControllerVars |-> NoController]

\* A pool and an online stereo context under construction.
Init == BufInit /\ CtxInit(FALSE, 2) /\ OscInit

\* The same, for an online or offline context of any supported width.
InitCtx ==
    BufInit /\ OscInit /\ \E is_offline \in BOOLEAN, max \in MaxChannelArgs : CtxInit(is_offline, max)

\* A panic (assert!, todo!()) unwinds the thread that owns the pool: every
\* handle and buffer and the pool itself are dropped.
Panic(call) ==
    /\ panicked' = TRUE
    /\ data' = [b \in BlockIds |-> ZeroBlock]
    /\ rc' = [b \in BlockIds |-> 0]
    /\ nblocks' = 0
    /\ pool' = <<>>
    /\ fresh' = 0
    /\ ch' = [s \in Handles |-> None]
    /\ bufs' = [s \in Bufs |-> NoBuf]
    /\ op' = [name |-> "panic", call |-> call]

\* let s = alloc.allocate()
Allocate(s) ==
    /\ ~panicked /\ ch[s] = None
    /\ \E a \in {AllocInner_allocate(World)} :
       /\ Fits(a.w)
       /\ Install(a.w)
       /\ ch' = [ch EXCEPT ![s] = a.blk]
       /\ op' = [name |-> "allocate", h |-> s, popped |-> Len(pool) > 0]
    /\ UNCHANGED <<bufs, panicked>>
    /\ UNCHANGED <<cvars, ovars>>

\* let s = alloc.silence()
Silence(s) ==
    /\ ~panicked /\ ch[s] = None
    /\ \E a \in {ChannelData_silence(World)} :
       /\ Install(a.w)
       /\ ch' = [ch EXCEPT ![s] = a.blk]
       /\ op' = [name |-> "silence", h |-> s]
    /\ UNCHANGED <<bufs, panicked>>
    /\ UNCHANGED <<cvars, ovars>>

\* let s = t.silence()
SilenceOf(s, t) ==
    /\ ~panicked /\ ch[s] = None /\ ch[t] # None
    /\ \E a \in {ChannelData_silence(World)} :
       /\ Install(a.w)
       /\ ch' = [ch EXCEPT ![s] = a.blk]
       /\ op' = [name |-> "silence", h |-> s]
    /\ UNCHANGED <<bufs, panicked>>
    /\ UNCHANGED <<cvars, ovars>>

\* let s = t.clone()
Clone(s, t) ==
    /\ ~panicked /\ ch[s] = None /\ ch[t] # None
    /\ Install(ChannelData_clone(World, ch[t]))
    /\ ch' = [ch EXCEPT ![s] = ch[t]]
    /\ op' = [name |-> "clone", h |-> s]
    /\ UNCHANGED <<bufs, panicked>>
    /\ UNCHANGED <<cvars, ovars>>

\* s.deref_mut(): the mutable view is taken, nothing is written.
DerefMut(s) ==
    /\ ~panicked /\ ch[s] # None
    /\ \E m \in {make_mut(World, ch[s])} :
       /\ Fits(m.w)
       /\ Install(m.w)
       /\ ch' = [ch EXCEPT ![s] = m.blk]
       /\ op' = [name |-> "deref_mut", h |-> s, shared |-> rc[ch[s]] # 1,
                 was_silent |-> is_silent(ch[s])]
    /\ UNCHANGED <<bufs, panicked>>
    /\ UNCHANGED <<cvars, ovars>>

\* s.deref_mut()[i] = v
Write(s, i, v) ==
    /\ ~panicked /\ ch[s] # None
    /\ \E m \in {make_mut(World, ch[s])} :
       \E w \in {[m.w EXCEPT !.data[m.blk][i] = v]} :
       /\ Fits(w)
       /\ Install(w)
       /\ ch' = [ch EXCEPT ![s] = m.blk]
       /\ op' = [name |-> "write", h |-> s, shared |-> rc[ch[s]] # 1,
                 was_silent |-> is_silent(ch[s])]
    /\ UNCHANGED <<bufs, panicked>>
    /\ UNCHANGED <<cvars, ovars>>

\* s.add(&t)
Add(s, t) ==
    /\ ~panicked /\ s # t /\ ch[s] # None /\ ch[t] # None
    /\ \E r \in {ChannelData_add(World, ch[s], ch[t])} :
       /\ Fits(r.w)
       /\ Install(r.w)
       /\ ch' = [ch EXCEPT ![s] = r.blk]
       /\ op' = [name |-> "add", h |-> s, from |-> t,
                 case |-> IF is_silent(ch[s]) THEN "adopt"
                          ELSE IF is_silent(ch[t]) THEN "noop" ELSE "sum"]
    /\ UNCHANGED <<bufs, panicked>>
    /\ UNCHANGED <<cvars, ovars>>

\* drop(s)
Drop(s) ==
    /\ ~panicked /\ ch[s] # None
    /\ Install(ChannelData_drop(World, ch[s]))
    /\ ch' = [ch EXCEPT ![s] = None]
    /\ op' = [name |-> "drop", h |-> s, last |-> rc[ch[s]] = 1,
              was_silent |-> is_silent(ch[s])]
    /\ UNCHANGED <<bufs, panicked>>
    /\ UNCHANGED <<cvars, ovars>>

\* let bs = AudioBuffer::new(s)    (s is moved into the call)
New(bs, s) ==
    /\ ~panicked /\ bufs[bs] = NoBuf /\ ch[s] # None
    /\ \E r \in {AudioBuffer_new(World, ch[s])} :
       /\ Install(r.w)
       /\ bufs' = [bufs EXCEPT ![bs] = r.buf]
    /\ ch' = [ch EXCEPT ![s] = None]
    /\ op' = [name |-> "new", b |-> bs]
    /\ UNCHANGED panicked
    /\ UNCHANGED <<cvars, ovars>>

\* bs.set_number_of_channels(n)
SetNumberOfChannels(bs, n) ==
    /\ ~panicked /\ bufs[bs] # NoBuf
    /\ IF SetNumberAsserts(n)
       THEN /\ bufs' = [bufs EXCEPT ![bs] = set_number_of_channels(@, n)]
            /\ op' = [name |-> "set_number_of_channels", b |-> bs, n |-> n]
            /\ UNCHANGED <<data, rc, nblocks, pool, fresh, ch, panicked>>
       ELSE Panic("set_number_of_channels")
    /\ UNCHANGED <<cvars, ovars>>

\* The (2, 1) average is taken only where it is exact on the model's samples.
MixExact(buf, channels, interpretation) ==
    <<buf.channel_count, channels, interpretation>> = <<2, 1, Speakers>> =>
        \A i \in 1..LEN :
            (data[buf.channels[0]][i] + data[buf.channels[1]][i]) % 2 = 0

\* The call mix(channels, interpretation) on bs closes a Discrete round trip:
\* the last step was a Discrete mix of bs from `channels` up (or across) to
\* op.n channels.
ClosesTrip(bs, channels, interpretation) ==
    /\ interpretation = Discrete
    /\ op.name = "mix" /\ op.b = bs /\ op.ci = Discrete
    /\ op.before # NoBuf /\ channels = op.before.channel_count

\* The channels of a buffer that are in use.
ActivePart(buf) ==
    [buf EXCEPT !.channels = [i \in Chans |-> IF i < buf.channel_count THEN @[i] ELSE None]]

\* bs.mix(channels, interpretation).  With `tracked`, the step also keeps
\* what the buffer was before a Discrete upmix and whether the call closes a
\* detour mix(c2, Discrete); mix(c1, Discrete).
MixTracking(bs, channels, interpretation, tracked) ==
    /\ ~panicked /\ bufs[bs] # NoBuf
    /\ MixExact(bufs[bs], channels, interpretation)
    /\ \E r \in {mix(World, bufs[bs], channels, interpretation)} :
       IF r.panic THEN Panic("mix")
       ELSE /\ Fits(r.w)
            /\ Install(r.w)
            /\ bufs' = [bufs EXCEPT ![bs] = r.buf]
            /\ op' = [name |-> "mix", b |-> bs, n |-> channels, ci |-> interpretation,
                      trip |-> tracked /\ ClosesTrip(bs, channels, interpretation),
                      wide |-> tracked /\ ClosesTrip(bs, channels, interpretation)
                               /\ channels < bufs[bs].channel_count,
                      before |-> IF tracked /\ interpretation = Discrete
                                    /\ 1 <= bufs[bs].channel_count
                                    /\ bufs[bs].channel_count <= channels
                                 THEN ActivePart(bufs[bs]) ELSE NoBuf]
            /\ UNCHANGED <<ch, panicked>>
    /\ UNCHANGED <<cvars, ovars>>

\* bs.mix(channels, interpretation)
Mix(bs, channels, interpretation) == MixTracking(bs, channels, interpretation, FALSE)

\* bs.mix(channels, interpretation), tracked
MixTracked(bs, channels, interpretation) == MixTracking(bs, channels, interpretation, TRUE)

\* bs.make_silent()
MakeSilent(bs) ==
    /\ ~panicked /\ bufs[bs] # NoBuf
    /\ \E r \in {make_silent(World, bufs[bs])} :
       /\ Install(r.w)
       /\ bufs' = [bufs EXCEPT ![bs] = r.buf]
    /\ op' = [name |-> "make_silent", b |-> bs]
    /\ UNCHANGED <<ch, panicked>>
    /\ UNCHANGED <<cvars, ovars>>

\* bs.force_mono()
ForceMono(bs) ==
    /\ ~panicked /\ bufs[bs] # NoBuf
    /\ bufs' = [bufs EXCEPT ![bs] = force_mono(@)]
    /\ op' = [name |-> "force_mono", b |-> bs]
    /\ UNCHANGED <<data, rc, nblocks, pool, fresh, ch, panicked>>
    /\ UNCHANGED <<cvars, ovars>>

\* bs.channel_data_mut(i).deref_mut()[k] = v
BufWrite(bs, i, k, v) ==
    /\ ~panicked /\ bufs[bs] # NoBuf
    /\ \E r \in {WriteChannel([w |-> World, buf |-> bufs[bs]], i, k, v)} :
       /\ Fits(r.w)
       /\ Install(r.w)
       /\ bufs' = [bufs EXCEPT ![bs] = r.buf]
    /\ op' = [name |-> "buf_write", b |-> bs, i |-> i,
              shared |-> rc[bufs[bs].channels[i]] # 1,
              was_silent |-> is_silent(bufs[bs].channels[i])]
    /\ UNCHANGED <<ch, panicked>>
    /\ UNCHANGED <<cvars, ovars>>

\* bs.channel_data_mut(i).add(&t)
BufAddChannel(bs, i, t) ==
    /\ ~panicked /\ bufs[bs] # NoBuf /\ ch[t] # None
    /\ \E r \in {ChannelData_add(World, bufs[bs].channels[i], ch[t])} :
       /\ Fits(r.w)
       /\ Install(r.w)
       /\ bufs' = [bufs EXCEPT ![bs].channels[i] = r.blk]
    /\ op' = [name |-> "buf_add_channel", b |-> bs, i |-> i]
    /\ UNCHANGED <<ch, panicked>>
    /\ UNCHANGED <<cvars, ovars>>

\* br = bs.add(&bt, interpretation): the old value of br is dropped when the
\* result is assigned.  With `tracked`, the step also keeps which buffers were
\* the operands and how they were mixed.
BufAddTracking(br, bs, bt, interpretation, tracked) ==
    /\ ~panicked /\ bufs[bs] # NoBuf /\ bufs[bt] # NoBuf
    /\ \E r \in {AudioBuffer_add(World, bufs[bs], bufs[bt], interpretation)} :
       IF r.panic THEN Panic("add")
       ELSE \E w \in {IF bufs[br] = NoBuf THEN r.w ELSE AudioBuffer_drop(r.w, bufs[br])} :
            /\ Fits(w)
            /\ Install(w)
            /\ bufs' = [bufs EXCEPT ![br] = r.buf]
            /\ op' = IF tracked
                     THEN [name |-> "buf_add", b |-> br, self |-> bs, other |-> bt,
                           ci |-> interpretation]
                     ELSE [name |-> "buf_add", b |-> br]
            /\ UNCHANGED <<ch, panicked>>
    /\ UNCHANGED <<cvars, ovars>>

\* br = bs.add(&bt, interpretation)
BufAdd(br, bs, bt, interpretation) == BufAddTracking(br, bs, bt, interpretation, FALSE)

\* br = bs.add(&bt, interpretation), tracked
BufAddTracked(br, bs, bt, interpretation) ==
    BufAddTracking(br, bs, bt, interpretation, TRUE)

\* drop(bs)
BufDrop(bs) ==
    /\ ~panicked /\ bufs[bs] # NoBuf
    /\ Install(AudioBuffer_drop(World, bufs[bs]))
    /\ bufs' = [bufs EXCEPT ![bs] = NoBuf]
    /\ op' = [name |-> "buf_drop", b |-> bs]
    /\ UNCHANGED <<ch, panicked>>
    /\ UNCHANGED <<cvars, ovars>>

\* The pool and its ChannelData handles.
Next ==
    \/ \E s \in Handles : Allocate(s)
    \/ \E s \in Handles : Silence(s)
    \/ \E s, t \in Handles : SilenceOf(s, t)
    \/ \E s, t \in Handles : Clone(s, t)
    \/ \E s \in Handles : DerefMut(s)
    \/ \E s \in Handles, i \in 1..LEN, v \in WriteArgs : Write(s, i, v)
    \/ \E s, t \in Handles : Add(s, t)
    \/ \E s \in Handles : Drop(s)

Spec == Init /\ [][Next]_vars

\* AudioBuffers over the pool, fed by one ChannelData variable.
NextBuf ==
    \/ \E s \in BufHandles : Allocate(s)
    \/ \E s \in BufHandles : Silence(s)
    \/ \E s \in BufHandles, i \in BufSampleArgs, v \in WriteArgs : Write(s, i, v)
    \/ \E bs \in ShapeBufs, s \in BufHandles : New(bs, s)
    \/ \E bs \in ShapeBufs, n \in SetArgs : SetNumberOfChannels(bs, n)
    \/ \E bs \in ShapeBufs, n \in MixArgs, ci \in {Discrete, Speakers} : MixTracked(bs, n, ci)
    \/ \E bs \in ShapeBufs : MakeSilent(bs)
    \/ \E bs \in ShapeBufs : ForceMono(bs)
    \/ \E bs \in ShapeBufs, i \in ChanArgs, k \in BufSampleArgs, v \in WriteArgs : BufWrite(bs, i, k, v)
    \/ \E bs \in ShapeBufs : BufDrop(bs)

SpecBuf == Init /\ [][NextBuf]_vars

\* AudioBuffers whose channels are written, summed and mixed between mono
\* and stereo.
NextSum ==
    \/ \E s \in BufHandles : Allocate(s)
    \/ \E s \in BufHandles : Silence(s)
    \/ \E s \in BufHandles : DerefMut(s)
    \/ \E s \in BufHandles, i \in BufSampleArgs, v \in WriteArgs : Write(s, i, v)
    \/ \E bs \in ShapeBufs, s \in BufHandles : New(bs, s)
    \/ \E bs \in ShapeBufs, n \in SumMixArgs, ci \in {Discrete, Speakers} : Mix(bs, n, ci)
    \/ \E bs \in ShapeBufs : MakeSilent(bs)
    \/ \E bs \in ShapeBufs, i \in ChanArgs, k \in BufSampleArgs, v \in WriteArgs : BufWrite(bs, i, k, v)
    \/ \E bs \in ShapeBufs, i \in ChanArgs, t \in BufHandles : BufAddChannel(bs, i, t)
    \/ \E br, bs, bt \in ShapeBufs, ci \in {Discrete, Speakers} : BufAdd(br, bs, bt, ci)
    \/ \E bs \in ShapeBufs : BufDrop(bs)

SpecSum == Init /\ [][NextSum]_vars

\* Two AudioBuffers, built from written or silent blocks, mixed between mono
\* and stereo and summed with AudioBuffer::add.
NextAdd ==
    \/ \E s \in BufHandles : Allocate(s)
    \/ \E s \in BufHandles : Silence(s)
    \/ \E s \in BufHandles, i \in BufSampleArgs, v \in WriteArgs : Write(s, i, v)
    \/ \E bs \in Bufs, s \in BufHandles : New(bs, s)
    \/ \E bs \in Bufs, n \in UpMixArgs, ci \in {Discrete, Speakers} : Mix(bs, n, ci)
    \/ \E br \in ShapeBufs, bs, bt \in Bufs, ci \in {Discrete, Speakers} :
            BufAddTracked(br, bs, bt, ci)
    \/ \E bs \in Bufs : BufDrop(bs)

SpecAdd == Init /\ [][NextAdd]_vars

\* ---------------------------------------------------------------- context steps
\* Arguments of the calls made after construction.
ChannelCountArgs == 0..3
NodeArgs == LISTENER_PARAM_IDS_end..(LISTENER_PARAM_IDS_end + MaxNodes - 1)
CallNodeArgs == {LISTENER_PARAM_IDS_end}
ConnectToArgs == {DESTINATION_NODE_ID, LISTENER_PARAM_IDS_start}
DropArgs == {DESTINATION_NODE_ID} \cup NodeArgs
ParamArgs == {LISTENER_PARAM_IDS_start}
EventArgs == {"a", "b"}

\* A factory registers its params inside the node's registration; a param's
\* factory registers nothing.
MaxDepth == 2

Call(name, id) == [call |-> name, id |-> id]

\* AudioListenerNode::new, for one coordinate: the param is registered and its
\* connection to the listener is queued.
ParamScript ==
    <<Call("register", None), Call("registered", None),
      Call("queue_audio_param_connect", None)>>

RECURSIVE Times(_, _)
Times(script, n) == IF n = 0 THEN <<>> ELSE script \o Times(script, n - 1)

RECURSIVE DropScript(_, _)
DropScript(from, to) ==
    IF from > to THEN <<>>
    ELSE <<Call("mark_node_dropped", from)>> \o DropScript(from + 1, to)

\* The calls ConcreteBaseAudioContext::new makes on the facade, in order: the
\* destination is registered and taken apart, the listener node registers its
\* nine params inside its own registration and is taken apart, and the counter
\* is checked.
NewScript ==
    <<Call("register", None), Call("registered", None),
      Call("mark_node_dropped", DESTINATION_NODE_ID),
      Call("register", None)>>
    \o Times(ParamScript, LISTENER_PARAM_IDS_end - LISTENER_PARAM_IDS_start)
    \o <<Call("registered", None), Call("mark_node_dropped", LISTENER_NODE_ID)>>
    \o DropScript(LISTENER_PARAM_IDS_start, LISTENER_PARAM_IDS_end - 1)
    \o <<Call("debug_assert_eq", None)>>

\* While `new` runs, the main thread makes the calls of NewScript and no other
\* thread has the context; afterwards every thread may call.
Allowed(t, call) ==
    IF phase = "new" THEN t = MainThread /\ pc <= Len(NewScript) /\ NewScript[pc] = call
    ELSE phase = "built"

Advance == pc' = IF phase = "new" THEN pc + 1 ELSE pc

\* Ids whose register() has not returned yet.
InFrames == UNION {{frames[t][i].id : i \in 1..Len(frames[t])} : t \in Threads}

\* Ids whose FreeWhenFinished was sent.
Freed ==
    {render_channel[i].msg.id :
        i \in {j \in 1..Len(render_channel) : render_channel[j].msg.type = "FreeWhenFinished"}}

\* Ids user code holds a handle of: register() returned it, or the context
\* makes it on request (destination(), listener()), and it was not dropped.
Held == ((0..(node_id_inc - 1)) \ InFrames) \ Freed

\* Messages the threads in ts have passed to the facade.
RECURSIVE Logged(_)
Logged(ts) ==
    IF ts = {} THEN 0
    ELSE LET t == CHOOSE x \in ts : TRUE IN Len(calls[t]) + Logged(ts \ {t})

\* The frames of a thread when its innermost register() returns the node id.
Returned(fs, id) ==
    IF Len(fs) = 1 THEN <<>>
    ELSE [SubSeq(fs, 1, Len(fs) - 1) EXCEPT ![Len(fs) - 1].params = @ \cup {id}]

\* register, up to the call of the factory.
Register(t) ==
    /\ Allowed(t, Call("register", None))
    /\ phase = "built" => node_id_inc < LISTENER_PARAM_IDS_end + MaxNodes
    /\ Len(frames[t]) < MaxDepth
    /\ \E r \in {fetch_add(node_id_inc)} :
        /\ node_id_inc' = r.counter
        /\ allocated' = Append(allocated, r.id)
        /\ frames' = [frames EXCEPT ![t] = Append(@, [id |-> r.id, params |-> {}])]
        /\ op' = [name |-> "register", id |-> r.id]
    /\ Advance
    /\ UNCHANGED <<render_channel, queued_messages, queued_audio_listener_msgs, phase,
                   calls, offline, max_channel_count, channel_count, channel_config>>
    /\ UNCHANGED <<bstate, ovars, tvars>>

\* register, from the return of the factory on.  The destination's factory
\* makes its ChannelConfig with the count it was given.
Registered(t) ==
    /\ Allowed(t, Call("registered", None))
    /\ Len(frames[t]) > 0
    /\ \E id \in {frames[t][Len(frames[t])].id} :
        /\ IF IsListenerId(id)
           THEN /\ queued_audio_listener_msgs' =
                        Append(queued_audio_listener_msgs, RegisterNode(id))
                /\ UNCHANGED <<render_channel, queued_messages>>
           ELSE /\ \E r \in {resolve_queued_control_msgs(
                                  send(render_channel, t, "register", RegisterNode(id)),
                                  queued_messages, t, id)} :
                        /\ render_channel' = r.chan
                        /\ queued_messages' = r.queued
                /\ UNCHANGED queued_audio_listener_msgs
        /\ frames' = [frames EXCEPT ![t] = Returned(@, id)]
        /\ channel_count' =
                IF phase = "new" /\ Len(allocated) = 1 THEN max_channel_count
                ELSE channel_count
        /\ channel_config' =
                IF phase = "new" /\ Len(allocated) = 1
                THEN [mode |-> Explicit, interpretation |-> Speakers]
                ELSE channel_config
        /\ op' = [name |-> "registered", id |-> id, before |-> Len(render_channel)]
    /\ Advance
    /\ UNCHANGED <<node_id_inc, allocated, phase, calls, offline, max_channel_count>>
    /\ UNCHANGED <<bstate, ovars, tvars>>

\* queue_audio_param_connect(param, audio_node), called by the factory of
\* audio_node for a param it has registered.
QueueAudioParamConnect(t) ==
    /\ Allowed(t, Call("queue_audio_param_connect", None))
    /\ Len(frames[t]) > 0
    /\ \E param \in frames[t][Len(frames[t])].params :
        /\ queued_messages' =
                Append(queued_messages,
                       ConnectNode(param, frames[t][Len(frames[t])].id, 0, usize_MAX))
        /\ frames' = [frames EXCEPT ![t][Len(frames[t])].params = @ \ {param}]
        /\ op' = [name |-> "queue_audio_param_connect", id |-> param]
    /\ Advance
    /\ UNCHANGED <<node_id_inc, render_channel, queued_audio_listener_msgs, allocated,
                   phase, calls, offline, max_channel_count, channel_count, channel_config>>
    /\ UNCHANGED <<bstate, ovars, tvars>>

\* mark_node_dropped(id): the registration of id is dropped.
MarkNodeDropped(t, id) ==
    /\ Allowed(t, Call("mark_node_dropped", id))
    /\ phase = "built" => id \in DropArgs
    /\ id \in Held
    /\ \E r \in {mark_node_dropped(render_channel, disconnected, t, id)} :
        /\ render_channel' = r.chan
        /\ phase' = IF r.panic THEN "panicked" ELSE phase
    /\ op' = [name |-> "mark_node_dropped", id |-> id,
              before |-> Len(render_channel)]
    /\ Advance
    /\ UNCHANGED <<node_id_inc, queued_messages, queued_audio_listener_msgs, allocated,
                   frames, calls, offline, max_channel_count, channel_count, channel_config>>
    /\ UNCHANGED <<bstate, ovars, tvars>>

\* ConcreteBaseAudioContext::new, its last statement:
\* debug_assert_eq!(node_id_inc, LISTENER_PARAM_IDS.end).
DebugAssertEq ==
    /\ Allowed(MainThread, Call("debug_assert_eq", None))
    /\ phase = "new"
    /\ phase' = IF node_id_inc = LISTENER_PARAM_IDS_end THEN "built" ELSE "panicked"
    /\ op' = [name |-> "new", id |-> node_id_inc]
    /\ Advance
    /\ UNCHANGED <<node_id_inc, render_channel, queued_messages, queued_audio_listener_msgs,
                   allocated, frames, calls, offline, max_channel_count, channel_count, channel_config>>
    /\ UNCHANGED <<bstate, ovars, tvars>>

\* One call of thread t that passes `message` to the function fn, which sends it.
Pass(t, fn, message) ==
    /\ phase = "built"
    /\ Logged(Threads) < MaxCalls
    /\ render_channel' = send(render_channel, t, fn, message)
    /\ calls' = [calls EXCEPT ![t] = Append(@, message)]
    /\ op' = [name |-> fn, msg |-> message, before |-> Len(render_channel)]
    /\ UNCHANGED <<node_id_inc, queued_messages, queued_audio_listener_msgs, allocated,
                   frames, pc, phase, offline, max_channel_count, channel_count, channel_config>>
    /\ UNCHANGED <<bstate, ovars, tvars>>

\* connect(from, to, output, input)
Connect(t, from, to, output, input) ==
    /\ from \in Held /\ to \in Held
    /\ Pass(t, "connect", ConnectNode(from, to, output, input))

\* disconnect_from(from, to)
DisconnectFrom(t, from, to) ==
    /\ from \in Held /\ to \in Held
    /\ Pass(t, "disconnect_from", DisconnectNode(from, to))

\* disconnect(from)
Disconnect(t, from) ==
    /\ from \in Held
    /\ Pass(t, "disconnect", DisconnectAll(from))

\* pass_audio_param_event(to, event), `to` being the sender of a param.
PassAudioParamEvent(t, to, event) ==
    /\ to \in Held
    /\ Pass(t, "pass_audio_param_event", AudioParamEvent(to, event))

\* connect_listener_to_panner(panner)
ConnectListenerToPanner(t, panner) ==
    /\ phase = "built"
    /\ Logged(Threads) < MaxCalls
    /\ panner \in Held
    /\ render_channel' = ListenerToPanner(render_channel, t, panner, 0)
    /\ calls' = [calls EXCEPT ![t] = @ \o ListenerToPannerCalls(panner)]
    /\ op' = [name |-> "connect_listener_to_panner", id |-> panner,
              before |-> Len(render_channel)]
    /\ UNCHANGED <<node_id_inc, queued_messages, queued_audio_listener_msgs, allocated,
                   frames, pc, phase, offline, max_channel_count, channel_count, channel_config>>
    /\ UNCHANGED <<bstate, ovars, tvars>>

\* ensure_audio_listener_present()
EnsureAudioListenerPresent(t) ==
    /\ phase = "built"
    /\ \E r \in {ensure_audio_listener_present(render_channel, queued_messages,
                                                queued_audio_listener_msgs, t)} :
        /\ render_channel' = r.chan
        /\ queued_messages' = r.queued
        /\ calls' = [calls EXCEPT ![t] =
                        IF r.released
                        THEN Append(@, ConnectNode(LISTENER_NODE_ID, DESTINATION_NODE_ID,
                                                   0, usize_MAX))
                        ELSE @]
        /\ op' = [name |-> "ensure_audio_listener_present",
                  released |-> r.released, before |-> Len(render_channel),
                  buffered |-> Len(queued_audio_listener_msgs),
                  queued |-> Len(queued_messages)]
    /\ queued_audio_listener_msgs' = <<>>
    /\ UNCHANGED <<node_id_inc, allocated, frames, pc, phase, offline, max_channel_count,
                   channel_count, channel_config>>
    /\ UNCHANGED <<bstate, ovars, tvars>>

\* AudioDestinationNode::set_channel_count(v) on the destination node.
SetChannelCount(t, v) ==
    /\ phase = "built"
    /\ \E r \in {set_channel_count(offline, max_channel_count, channel_count, v)} :
        /\ channel_count' = r.count
        /\ op' = [name |-> "set_channel_count", v |-> v, err |-> r.err,
                  before |-> channel_count]
    /\ UNCHANGED <<node_id_inc, render_channel, queued_messages, queued_audio_listener_msgs,
                   allocated, frames, pc, phase, calls, offline, max_channel_count,
                   channel_config>>
    /\ UNCHANGED <<bstate, ovars, tvars>>

\* AudioDestinationNode::set_channel_count_mode(v) on the destination node.
SetChannelCountMode(t, v) ==
    /\ phase = "built"
    /\ \E r \in {set_channel_count_mode(channel_config, v)} :
        /\ channel_config' = r.config
        /\ op' = [name |-> "set_channel_count_mode", v |-> v, err |-> r.err]
    /\ UNCHANGED <<node_id_inc, render_channel, queued_messages, queued_audio_listener_msgs,
                   allocated, frames, pc, phase, calls, offline, max_channel_count,
                   channel_count>>
    /\ UNCHANGED <<bstate, ovars, tvars>>

\* The control threads on one context: construction, then registrations,
\* drops of handles and requests for the listener.
NextCtx ==
    \/ \E t \in Threads : Register(t)
    \/ \E t \in Threads : Registered(t)
    \/ \E t \in Threads : QueueAudioParamConnect(t)
    \/ \E t \in Threads, id \in 0..(LISTENER_PARAM_IDS_end + MaxNodes - 1) :
            MarkNodeDropped(t, id)
    \/ DebugAssertEq
    \/ \E t \in Threads : EnsureAudioListenerPresent(t)
SpecCtx == Init /\ [][NextCtx]_vars

\* The control threads on one context whose nodes the main thread registers
\* (after construction, nodes without params): construction, then graph
\* mutations and param events from every thread.
NextCalls ==
    \/ (phase = "new" \/ Len(frames[MainThread]) = 0) /\ Register(MainThread)
    \/ Registered(MainThread)
    \/ phase = "new" /\ QueueAudioParamConnect(MainThread)
    \/ \E id \in 0..(LISTENER_PARAM_IDS_end - 1) :
            phase = "new" /\ MarkNodeDropped(MainThread, id)
    \/ DebugAssertEq
    \/ \E t \in Threads, from \in CallNodeArgs, to \in ConnectToArgs : Connect(t, from, to, 0, 0)
    \/ \E t \in Threads, from \in CallNodeArgs : DisconnectFrom(t, from, DESTINATION_NODE_ID)
    \/ \E t \in Threads, from \in CallNodeArgs : Disconnect(t, from)
    \/ \E t \in Threads, to \in ParamArgs, event \in EventArgs :
            PassAudioParamEvent(t, to, event)
    \/ \E t \in Threads, panner \in CallNodeArgs : ConnectListenerToPanner(t, panner)
    \/ \E t \in Threads : EnsureAudioListenerPresent(t)
SpecCalls == Init /\ [][NextCalls]_vars

\* The destination node of a context: construction, then calls on the node.
NextDest ==
    \/ phase = "new" /\ Register(MainThread)
    \/ phase = "new" /\ Registered(MainThread)
    \/ phase = "new" /\ QueueAudioParamConnect(MainThread)
    \/ \E id \in 0..(LISTENER_PARAM_IDS_end - 1) : phase = "new" /\ MarkNodeDropped(MainThread, id)
    \/ DebugAssertEq
    \/ \E t \in Threads, v \in ChannelCountArgs : SetChannelCount(t, v)
    \/ \E t \in Threads, v \in ChannelCountModes : SetChannelCountMode(t, v)
SpecDest == InitCtx /\ [][NextDest]_vars

\* register, from the return of the factory on, once the Receiver is gone:
\* `render_channel.send(message).unwrap()` panics.
RegisteredDisconnected(t) ==
    /\ phase = "built" /\ disconnected
    /\ Len(frames[t]) > 0
    /\ phase' = "panicked"
    /\ op' = [name |-> "panic", call |-> "register"]
    /\ UNCHANGED <<node_id_inc, render_channel, queued_messages, queued_audio_listener_msgs,
                   allocated, frames, pc, calls, offline, max_channel_count, channel_count,
                   channel_config>>
    /\ UNCHANGED <<bstate, ovars, tvars>>

\* The render thread shuts down: the Receiver of render_channel is dropped.
DropReceiver ==
    /\ phase = "built" /\ ~disconnected
    /\ disconnected' = TRUE
    /\ op' = [name |-> "drop_receiver"]
    /\ UNCHANGED <<node_id_inc, render_channel, queued_messages, queued_audio_listener_msgs,
                   allocated, frames, pc, phase, calls, offline, max_channel_count,
                   channel_count, channel_config, in_call>>
    /\ UNCHANGED <<bstate, ovars>>

\* A context whose render thread shuts down at some point: nodes are
\* registered and their handles dropped before and after.
NextShutdown ==
    \/ \E t \in Threads : Register(t)
    \/ \E t \in Threads : ~disconnected /\ Registered(t)
    \/ \E t \in Threads : RegisteredDisconnected(t)
    \/ \E t \in Threads : QueueAudioParamConnect(t)
    \/ \E t \in Threads, id \in 0..(LISTENER_PARAM_IDS_end + MaxNodes - 1) :
            MarkNodeDropped(t, id)
    \/ DebugAssertEq
    \/ DropReceiver
SpecShutdown == Init /\ [][NextShutdown]_vars

\* ---------------------------------------------------------------- listener calls, step by step
\* The facade variables the stepwise listener calls leave alone.
ListenerCallFrame ==
    UNCHANGED <<node_id_inc, allocated, frames, pc, phase, calls, offline,
                max_channel_count, channel_count, channel_config, disconnected>>

EnsureFn == "ensure_audio_listener_present"
PannerFn == "connect_listener_to_panner"

\* Mutant: the mutex is never seen as held.
Locked_Never == FALSE

\* The mutex of queued_audio_listener_msgs is held: the guard taken in the
\* first statement of ensure_audio_listener_present lives until it returns.
Locked == \E t \in Threads : in_call[t].fn = EnsureFn

\* ensure_audio_listener_present, `queued_audio_listener_msgs.lock().unwrap()`
\* and `let mut released = false`: the thread waits while the mutex is held.
EnsureLock(t) ==
    /\ phase = "built"
    /\ in_call[t].fn = "none" /\ in_call[t].n < MaxCalls
    /\ ~Locked
    /\ in_call' = [in_call EXCEPT ![t] =
                        [fn |-> EnsureFn, ensured |-> @.ensured, n |-> @.n + 1,
                         at |-> "while", released |-> FALSE]]
    /\ op' = [name |-> "lock", by |-> t]
    /\ UNCHANGED <<render_channel, queued_messages, queued_audio_listener_msgs>>
    /\ ListenerCallFrame
    /\ UNCHANGED <<bstate, ovars>>

\* One turn of `while let Some(message) = queued_audio_listener_msgs.pop()`:
\* the message pushed last is sent and `released` is set.
EnsurePop(t) ==
    /\ in_call[t].fn = EnsureFn /\ in_call[t].at = "while"
    /\ Len(queued_audio_listener_msgs) > 0
    /\ render_channel' =
            send(render_channel, t, EnsureFn,
                 queued_audio_listener_msgs[Len(queued_audio_listener_msgs)])
    /\ queued_audio_listener_msgs' =
            SubSeq(queued_audio_listener_msgs, 1, Len(queued_audio_listener_msgs) - 1)
    /\ in_call' = [in_call EXCEPT ![t].released = TRUE]
    /\ op' = [name |-> "pop", by |-> t]
    /\ UNCHANGED queued_messages
    /\ ListenerCallFrame
    /\ UNCHANGED <<bstate, ovars>>

\* The loop ends on an empty list.  With `released`, the queued ConnectNode
\* messages to the listener are released; without, the function returns and
\* the guard is dropped.
EnsureLoopEnd(t) ==
    /\ in_call[t].fn = EnsureFn /\ in_call[t].at = "while"
    /\ Len(queued_audio_listener_msgs) = 0
    /\ IF in_call[t].released
       THEN /\ \E r \in {resolve_queued_control_msgs(render_channel, queued_messages, t,
                                                      LISTENER_NODE_ID)} :
                    /\ render_channel' = r.chan
                    /\ queued_messages' = r.queued
            /\ in_call' = [in_call EXCEPT ![t].at = "connect"]
       ELSE /\ in_call' = [in_call EXCEPT ![t] = Outside(TRUE, @.n)]
            /\ UNCHANGED <<render_channel, queued_messages>>
    /\ op' = [name |-> "loop_end", by |-> t, released |-> in_call[t].released]
    /\ UNCHANGED queued_audio_listener_msgs
    /\ ListenerCallFrame
    /\ UNCHANGED <<bstate, ovars>>

\* The connect of the listener to the destination on input usize::MAX, and
\* the return, which drops the guard.
EnsureConnect(t) ==
    /\ in_call[t].fn = EnsureFn /\ in_call[t].at = "connect"
    /\ render_channel' = connect(render_channel, t, LISTENER_NODE_ID, DESTINATION_NODE_ID,
                                 0, usize_MAX)
    /\ in_call' = [in_call EXCEPT ![t] = Outside(TRUE, @.n)]
    /\ op' = [name |-> EnsureFn, by |-> t]
    /\ UNCHANGED <<queued_messages, queued_audio_listener_msgs>>
    /\ ListenerCallFrame
    /\ UNCHANGED <<bstate, ovars>>

\* connect_listener_to_panner(panner) is entered by a thread to which
\* ensure_audio_listener_present has returned.
PannerEnter(t, panner) ==
    /\ phase = "built"
    /\ in_call[t].fn = "none" /\ in_call[t].ensured /\ in_call[t].n < MaxCalls
    /\ in_call' = [in_call EXCEPT ![t] =
                        [fn |-> PannerFn, ensured |-> TRUE, n |-> @.n + 1,
                         panner |-> panner, output |-> 0]]
    /\ op' = [name |-> "enter", by |-> t]
    /\ UNCHANGED <<render_channel, queued_messages, queued_audio_listener_msgs>>
    /\ ListenerCallFrame
    /\ UNCHANGED <<bstate, ovars>>

\* Its next `self.connect(LISTENER_NODE_ID, panner, output, output + 1)`;
\* it returns after the ninth.
PannerConnect(t) ==
    /\ in_call[t].fn = PannerFn
    /\ render_channel' = connect(render_channel, t, LISTENER_NODE_ID, in_call[t].panner,
                                 in_call[t].output, in_call[t].output + 1)
    /\ in_call' = [in_call EXCEPT ![t] =
                        IF @.output = 8 THEN Outside(TRUE, @.n)
                        ELSE [@ EXCEPT !.output = @ + 1]]
    /\ op' = [name |-> PannerFn, by |-> t]
    /\ UNCHANGED <<queued_messages, queued_audio_listener_msgs>>
    /\ ListenerCallFrame
    /\ UNCHANGED <<bstate, ovars>>

\* The panner ids tried, and the threads that make a panner.  The other
\* threads call ensure_audio_listener_present only.
PannerArgs == {LISTENER_PARAM_IDS_end}
PannerThreads == {MainThread}

\* A context is built; then its threads call ensure_audio_listener_present
\* and connect_listener_to_panner, statement by statement.
NextListener ==
    \/ phase = "new" /\ Register(MainThread)
    \/ phase = "new" /\ Registered(MainThread)
    \/ phase = "new" /\ QueueAudioParamConnect(MainThread)
    \/ \E id \in 0..(LISTENER_PARAM_IDS_end - 1) : phase = "new" /\ MarkNodeDropped(MainThread, id)
    \/ DebugAssertEq
    \/ \E t \in Threads : EnsureLock(t)
    \/ \E t \in Threads : EnsurePop(t)
    \/ \E t \in Threads : EnsureLoopEnd(t)
    \/ \E t \in Threads : EnsureConnect(t)
    \/ \E t \in PannerThreads, panner \in PannerArgs : PannerEnter(t, panner)
    \/ \E t \in Threads : PannerConnect(t)
SpecListener == Init /\ [][NextListener]_vars


\* ---------------------------------------------------------------- oscillator steps
\* The start and stop times tried (in half frames): negative, the first
\* frame, between two frames, a later frame.
TimeArgs == {-2, 1, 6}
\* The periodic wave tried, as its table.
PeriodicWaveArgs == {<<1, 2, 3, 4, 5, 6, 7, 8>>}
\* OscillatorOptions tried, and the arguments of set_type.
OptionArgs ==
    {[type_ |-> t, periodic_wave |-> NoWave] : t \in {Sine, Custom}}
    \cup {[type_ |-> Sine, periodic_wave |-> Some(w)] : w \in PeriodicWaveArgs}
TypeArgs == {Square, Custom}
\* The phase increments the frequency and detune params give.
FrequencyArgs == {2}
\* The buffer the oscillator renders into, which is the input of the
\* destination, and the output of the destination.
OscOut == "x"
DestOut == "y"

\* The control thread is not inside a call on the oscillator.
Idle == osc # NoOsc /\ osc.sending = NoWave

\* let osc = OscillatorNode::new(context, options); the graph has made the
\* output buffers of its nodes.
OscillatorNew(options) ==
    /\ ~panicked /\ osc = NoOsc
    /\ bufs[OscOut] # NoBuf /\ bufs[DestOut] # NoBuf
    /\ \E r \in {OscillatorNode_new(atomic, options)} :
        /\ atomic' = r.cells
        /\ osc' = r.osc
    /\ op' = [name |-> "OscillatorNode::new", options |-> options]
    /\ UNCHANGED <<current_time, turn, controllers>>
    /\ UNCHANGED <<bstate, cvars>>

\* osc.set_type(type)
SetType(type) ==
    /\ ~panicked /\ Idle
    /\ \E r \in {set_type(atomic, osc.node, type)} :
        /\ atomic' = r.cells
        /\ op' = [name |-> "set_type", v |-> type, err |-> r.err]
    /\ UNCHANGED <<osc, current_time, turn, controllers>>
    /\ UNCHANGED <<bstate, cvars>>

\* osc.set_periodic_wave(periodic_wave), up to the send
SetPeriodicWave(periodic_wave) ==
    /\ ~panicked /\ Idle
    /\ atomic' = set_periodic_wave(atomic, osc.node)
    /\ osc' = [osc EXCEPT !.sending = Some(periodic_wave)]
    /\ op' = [name |-> "set_periodic_wave"]
    /\ UNCHANGED <<current_time, turn, controllers>>
    /\ UNCHANGED <<bstate, cvars>>

\* osc.set_periodic_wave, `self.sender.send(periodic_wave)`: the call returns
\* once the channel has room for the wave.
SendPeriodicWave ==
    /\ ~panicked /\ osc # NoOsc /\ osc.sending # NoWave
    /\ Len(osc.channel) < ChannelCap
    /\ osc' = [osc EXCEPT !.channel = Append(@, osc.sending[1]), !.sending = NoWave]
    /\ op' = [name |-> "send"]
    /\ UNCHANGED <<atomic, current_time, turn, controllers>>
    /\ UNCHANGED <<bstate, cvars>>

\* osc.start_at(when)
StartAt(when) ==
    /\ ~panicked /\ Idle
    /\ atomic' = start_at(atomic, osc.node.scheduler, when)
    /\ op' = [name |-> "start_at", when |-> when, err |-> "none"]
    /\ UNCHANGED <<osc, current_time, turn, controllers>>
    /\ UNCHANGED <<bstate, cvars>>

\* osc.stop_at(when)
StopAt(when) ==
    /\ ~panicked /\ Idle
    /\ atomic' = stop_at(atomic, osc.node.scheduler, when)
    /\ op' = [name |-> "stop_at", when |-> when, err |-> "none"]
    /\ UNCHANGED <<osc, current_time, turn, controllers>>
    /\ UNCHANGED <<bstate, cvars>>

\* The render thread runs OscillatorRenderer::process for the next quantum,
\* whose scope has current_time.  An unwrap of None panics the render thread.
Process(phase_incr) ==
    /\ ~panicked /\ osc # NoOsc /\ turn = "oscillator"
    /\ current_time < MaxQuanta * dt * RENDER_QUANTUM_SIZE
    /\ \E r \in {process(World, bufs[OscOut], atomic, osc.renderer, osc.channel,
                         current_time, phase_incr)} :
        /\ osc' = [osc EXCEPT !.renderer = r.renderer, !.channel = r.channel]
        /\ IF r.panic
           THEN Panic("process")
           ELSE /\ InBounds(r.w)
                /\ Install(r.w)
                /\ bufs' = [bufs EXCEPT ![OscOut] = r.buf]
                /\ op' = [name |-> "process", node |-> "oscillator", ret |-> r.ret,
                          phase_incr |-> phase_incr]
                /\ UNCHANGED <<ch, panicked>>
    /\ turn' = "destination"
    /\ UNCHANGED <<atomic, current_time, controllers>>
    /\ UNCHANGED cvars

\* The render thread runs DestinationRenderer::process on the quantum the
\* oscillator rendered, which ends the render quantum.
DestinationProcess ==
    /\ ~panicked /\ turn = "destination"
    /\ \E r \in {destination_process(World, bufs[OscOut], bufs[DestOut])} :
        /\ InBounds(r.w)
        /\ Install(r.w)
        /\ bufs' = [bufs EXCEPT ![DestOut] = r.buf]
        /\ op' = [name |-> "process", node |-> "destination", ret |-> r.ret]
    /\ turn' = "oscillator"
    /\ current_time' = current_time + dt * RENDER_QUANTUM_SIZE
    /\ UNCHANGED <<ch, panicked>>
    /\ UNCHANGED <<atomic, osc, controllers>>
    /\ UNCHANGED cvars

\* An oscillator and the destination on the render thread, the control
\* thread calling the oscillator's methods meanwhile.  The graph makes the
\* two output buffers and may widen the oscillator's between two quanta.
NextOsc ==
    \/ \E s \in BufHandles : bufs[DestOut] = NoBuf /\ Silence(s)
    \/ \E bs \in {OscOut, DestOut}, s \in BufHandles : New(bs, s)
    \/ \E c \in UpMixArgs : Mix(OscOut, c, Discrete)
    \/ \E options \in OptionArgs : OscillatorNew(options)
    \/ \E type \in TypeArgs : SetType(type)
    \/ \E w \in PeriodicWaveArgs : SetPeriodicWave(w)
    \/ SendPeriodicWave
    \/ \E when \in TimeArgs : StartAt(when)
    \/ \E when \in TimeArgs : StopAt(when)
    \/ \E phase_incr \in FrequencyArgs : Process(phase_incr)
    \/ DestinationProcess
SpecOsc == Init /\ [][NextOsc]_vars

\* The phase increments of frequencies and detunes within the declared
\* ranges: a negative frequency, a positive one, and a detuned frequency above
\* the sample rate (more than one period per frame).
PhaseIncrArgs == {-2, 2, 10}

\* A sine oscillator rendered with the frequency and detune params anywhere
\* in their ranges.
NextPhase ==
    \/ \E s \in BufHandles : bufs[DestOut] = NoBuf /\ Silence(s)
    \/ \E bs \in {OscOut, DestOut}, s \in BufHandles : New(bs, s)
    \/ OscillatorNew([type_ |-> Sine, periodic_wave |-> NoWave])
    \/ \E when \in TimeArgs : StartAt(when)
    \/ \E phase_incr \in PhaseIncrArgs : Process(phase_incr)
    \/ DestinationProcess
SpecPhase == Init /\ [][NextPhase]_vars


\* ---------------------------------------------------------------- controller steps
\* The values given to the setters of the f64 fields.
ControlArgs == {1}

\* let c = Controller::new()
ControllerNew ==
    /\ controllers["c"] = NoController
    /\ \E r \in {Controller_new(atomic)} :
        /\ atomic' = r.cells
        /\ controllers' = [controllers EXCEPT !["c"] = r.controller]
    /\ op' = [name |-> "Controller::new"]
    /\ UNCHANGED <<osc, current_time, turn>>
    /\ UNCHANGED <<bstate, cvars>>

\* let r = c.clone()
ControllerClone ==
    /\ controllers["c"] # NoController /\ controllers["r"] = NoController
    /\ \E r \in {Controller_clone(atomic, controllers["c"])} :
        /\ atomic' = r.cells
        /\ controllers' = [controllers EXCEPT !["r"] = r.controller]
    /\ op' = [name |-> "Controller::clone"]
    /\ UNCHANGED <<osc, current_time, turn>>
    /\ UNCHANGED <<bstate, cvars>>

\* A setter of the Controller held in h.
SetField(h, field, v) ==
    /\ controllers[h] # NoController
    /\ atomic' = set(atomic, controllers[h], field, v)
    /\ op' = [name |-> "set", field |-> field, v |-> v]
    /\ UNCHANGED <<osc, current_time, turn, controllers>>
    /\ UNCHANGED <<bstate, cvars>>

SetLoop(h, v) == SetField(h, "loop_", v)
SetLoopStart(h, v) == SetField(h, "loop_start", v)
SetLoopEnd(h, v) == SetField(h, "loop_end", v)
SetOffset(h, v) == SetField(h, "offset", v)
SetDuration(h, v) == SetField(h, "duration", v)

\* A Controller and its clone, and the Scheduler an oscillator shares with
\* its renderer: construction and the setters, no rendering.
NextControl ==
    \/ ControllerNew
    \/ ControllerClone
    \/ \E h \in ControllerVars, v \in BOOLEAN : SetLoop(h, v)
    \/ \E h \in ControllerVars, v \in ControlArgs : SetLoopStart(h, v)
    \/ \E h \in ControllerVars, v \in ControlArgs : SetLoopEnd(h, v)
    \/ \E h \in ControllerVars, v \in ControlArgs : SetOffset(h, v)
    \/ \E h \in ControllerVars, v \in ControlArgs : SetDuration(h, v)
    \/ \E s \in BufHandles : bufs[DestOut] = NoBuf /\ Silence(s)
    \/ \E bs \in {OscOut, DestOut}, s \in BufHandles : New(bs, s)
    \/ OscillatorNew([type_ |-> Sine, periodic_wave |-> NoWave])
    \/ \E when \in TimeArgs : StartAt(when)
    \/ \E when \in TimeArgs : StopAt(when)
SpecControl == Init /\ [][NextControl]_vars

\* ================================================================ claims
\* The ChannelData variables that hold a handle.
Live == {s \in Handles : ch[s] # None}

\* The step is a write through the mutable view of ChannelData variable s.
WroteThrough(s) ==
    /\ op'.name \in {"write", "deref_mut"} \/ (op'.name = "add" /\ op'.case = "sum")
    /\ op'.h = s

\* AllocInner::allocate was called once in the step and returned block b.
TookBlock(b) ==
    IF Len(pool) > 0
    THEN /\ b = pool[Len(pool)]
         /\ pool' = SubSeq(pool, 1, Len(pool) - 1)
         /\ nblocks' = nblocks /\ fresh' = fresh
    ELSE /\ b = nblocks + 1
         /\ pool' = pool
         /\ nblocks' = nblocks + 1 /\ fresh' = fresh + 1

\* AllocInner::allocate was not called in the step.
TookNothing == pool' = pool /\ nblocks' = nblocks /\ fresh' = fresh

\* C1: copy-on-write isolation.  A write through the mutable view of one
\* handle leaves the samples seen through every other handle as they were;
\* the handle moves to a block taken from the pool exactly when its block had
\* more than one owner, and otherwise stays on its block and takes nothing
\* from the pool.
C1_CopyOnWrite ==
    [][\A s \in Handles : WroteThrough(s) =>
          /\ \A t \in Live \ {s} : ch'[t] = ch[t] /\ data'[ch[t]] = data[ch[t]]
          /\ IF rc[ch[s]] # 1
             THEN ch'[s] # ch[s] /\ TookBlock(ch'[s])
             ELSE ch'[s] = ch[s] /\ TookNothing]_vars

\* C1 witness: a write through `a` while `b` shared its block; the two now
\* show different samples.
C1_Witness ==
    /\ op.name = "write" /\ op.h = "a" /\ op.shared
    /\ ch["a"] # None /\ ch["b"] # None
    /\ data[ch["a"]] # data[ch["b"]]

\* C3: reclamation on last drop.  Dropping the last owner of a non-silence
\* block pushes that block onto the free list; dropping a handle that is not
\* the last owner, or a handle to the silence block, leaves the free list as
\* it was; the silence block is never in the free list.
C3_ReclaimOnLastDrop ==
    /\ [][\A s \in Handles : (op'.name = "drop" /\ op'.h = s) =>
            IF rc[ch[s]] = 1 /\ ~is_silent(ch[s])
            THEN pool' = Append(pool, ch[s])
            ELSE pool' = pool]_vars
    /\ [](\A k \in 1..Len(pool) : pool[k] # zeroes)

\* C3 witness: the last owner of a non-silence block was dropped and the
\* block is on top of the free list.
C3_Witness ==
    /\ op.name = "drop" /\ op.last /\ ~op.was_silent
    /\ Len(pool) > 0 /\ ~is_silent(pool[Len(pool)])

\* The non-silence blocks held by ChannelData variables.
HeldBlocks == {ch[s] : s \in Live} \ {zeroes}

\* The blocks the pool owns: those in the free list and those held by handles.
PoolOwned == Len(pool) + Cardinality(HeldBlocks)

\* C4: the pool never shrinks.  The number of blocks in the free list plus
\* blocks held by handles never decreases, and whenever no non-silence handle
\* is live pool_size() is the initial capacity plus the number of blocks
\* created on an empty free list.
C4_PoolNeverShrinks ==
    /\ [][PoolOwned' >= PoolOwned]_vars
    /\ [](HeldBlocks = {} => Len(pool) = PoolCap + fresh /\ Len(pool) >= PoolCap)

\* C4 witness: every block is back in the free list, which has grown past
\* its initial capacity.
C4_Witness ==
    /\ op.name = "drop" /\ HeldBlocks = {}
    /\ fresh > 0 /\ Len(pool) = PoolCap + fresh

\* C5 as claimed: the block returned by allocate() has all samples zero,
\* whether it was popped from the free list or created.
C5_AllocateZeroed ==
    op.name = "allocate" => data[ch[op.h]] = ZeroBlock

\* C5 amended: allocate() returns a zero block when the free list is empty
\* and a block is created; a block popped from the free list is the one
\* pushed last and keeps the samples it had when it was reclaimed.
C5_AllocateFreshZeroedPoppedKept ==
    [][\A s \in Handles : (op'.name = "allocate" /\ op'.h = s) =>
          /\ TookBlock(ch'[s])
          /\ IF Len(pool) > 0
             THEN data'[ch'[s]] = data[ch'[s]]
             ELSE data'[ch'[s]] = ZeroBlock]_vars

\* C5 witness: allocate() popped a block that still holds written samples.
C5_Witness ==
    /\ op.name = "allocate" /\ op.popped
    /\ data[ch[op.h]] # ZeroBlock

\* C6: silence is a pointer identity.  silence() yields a handle for which
\* is_silent() holds and leaves pool_size() as it was; a handle returned by
\* allocate(), and any handle after its mutable view was taken, is not
\* silent, whatever its samples; the handles for which is_silent() holds
\* all show zero samples.
C6_SilenceIsPointerIdentity ==
    /\ [][\A s \in Handles :
            /\ (op'.name = "silence" /\ op'.h = s) =>
                    is_silent(ch'[s]) /\ Len(pool') = Len(pool)
            /\ (op'.name = "allocate" /\ op'.h = s) => ~is_silent(ch'[s])
            /\ WroteThrough(s) => ~is_silent(ch'[s])]_vars
    /\ [](\A s \in Live : is_silent(ch[s]) => data[ch[s]] = ZeroBlock)

\* C6 witness: the mutable view of a silent handle was taken; the handle
\* still shows zero samples and is no longer silent.
C6_Witness ==
    /\ op.name = "deref_mut" /\ op.was_silent
    /\ data[ch[op.h]] = ZeroBlock /\ ~is_silent(ch[op.h])

\* C7: ChannelData::add(a, b).  A silent a becomes a handle to b's block,
\* no sample is copied and no block is taken from the pool; otherwise with a
\* silent b, a and the pool are unchanged; otherwise a holds the sample-wise
\* sum and b is unchanged.
C7_ChannelAdd ==
    [][\A a, b \in Handles : (op'.name = "add" /\ op'.h = a /\ op'.from = b) =>
          /\ ch'[b] = ch[b] /\ data'[ch[b]] = data[ch[b]]
          /\ IF is_silent(ch[a])
             THEN ch'[a] = ch[b] /\ data' = data /\ TookNothing
             ELSE IF is_silent(ch[b])
             THEN ch'[a] = ch[a] /\ data' = data /\ TookNothing /\ rc' = rc
             ELSE data'[ch'[a]] =
                    [i \in 1..LEN |-> data[ch[a]][i] + data[ch[b]][i]]]_vars

\* C7 witness: two non-silent handles with different samples were summed.
C7_Witness ==
    /\ op.name = "add" /\ op.case = "sum"
    /\ ch[op.h] # ch[op.from]
    /\ \E i, j \in 1..LEN : data[ch[op.h]][i] = 2 /\ data[ch[op.h]][j] = 1

\* The step took the mutable view of a silent ChannelData variable or of a
\* silent channel of a buffer.
SilentWrite == op'.name \in {"write", "deref_mut", "buf_write"} /\ op'.was_silent

\* The block that handle refers to after the step.
SilentWriteTarget ==
    IF op'.name = "buf_write" THEN bufs'[op'.b].channels[op'.i] ELSE ch'[op'.h]

\* After the step block b holds zeros, but for one sample if one was written.
ZeroBeforeWrite(b) ==
    \/ data'[b] = ZeroBlock
    \/ /\ op'.name # "deref_mut"
       /\ \E i \in 1..LEN, v \in Samples : data'[b] = [ZeroBlock EXCEPT ![i] = v]

\* A step that takes the mutable view of a silent handle moves the handle to
\* a block taken from the pool, which held zeros before the write, and the
\* handle is not silent afterwards.
SilentWriteMoves ==
    SilentWrite =>
        /\ TookBlock(SilentWriteTarget)
        /\ ZeroBeforeWrite(SilentWriteTarget)
        /\ ~is_silent(SilentWriteTarget)

\* C2: the silence block is immutable.  After any sequence of allocate,
\* silence, clone, writes, add, mix, make_silent and drop every sample of
\* the silence block is zero; a write through a silent handle first moves
\* the handle to a pool block holding zeros, and the handle is then not
\* silent.
C2_SilenceImmutable ==
    /\ [](data[zeroes] = ZeroBlock)
    /\ [][SilentWriteMoves]_vars

\* C2 witness: a sample was written through a silent channel of a buffer;
\* the channel is no longer silent and shows the written sample only, another
\* channel is still silent and the silence block is unchanged.
C2_Witness ==
    /\ op.name = "buf_write" /\ op.was_silent
    /\ LET b == bufs[op.b].channels[op.i] IN
       /\ ~is_silent(b)
       /\ data[b] = [ZeroBlock EXCEPT ![1] = 1]
    /\ \E c \in ChanArgs : is_silent(bufs[op.b].channels[c])
    /\ data[zeroes] = ZeroBlock

\* A buffer variable holds a buffer whose channel count is outside 1..32.
BadCount(bs) ==
    /\ bufs[bs] # NoBuf
    /\ ~(1 <= bufs[bs].channel_count /\ bufs[bs].channel_count <= MAX_CHANNELS)

\* C8 as claimed: after any sequence of AudioBuffer operations
\* number_of_channels() is between 1 and 32; a request for 0 or for more
\* than 32 channels is rejected.
C8_ChannelCountInRange ==
    /\ \A bs \in Bufs : ~BadCount(bs)
    /\ (op.name = "set_number_of_channels" => op.n \in 1..MAX_CHANNELS)

\* The buffer in variable bs has a channel count the specification allows.
ValidCount(bs) == bufs[bs] # NoBuf /\ ~BadCount(bs)

\* C9 as claimed: on a buffer with 1 to 32 channels, mix(c, interpretation)
\* with c in 1..=32 completes and number_of_channels() == c afterwards.
C9_MixPostCondition ==
    [][\A bs \in Bufs, c \in MixArgs \cap (1..MAX_CHANNELS), ci \in {Discrete, Speakers} :
          (ValidCount(bs) /\ Mix(bs, c, ci)) =>
              ~panicked' /\ bufs'[bs].channel_count = c]_vars

\* The pair (number_of_channels, c) has no arm in the Speakers table of mix.
Unsupported(buf, c) == buf.channel_count # c /\ MixTodo(buf.channel_count, c)

\* C10 as claimed: on a buffer with 1 to 32 channels, mix(c, Speakers) on a
\* pair without an arm in the Speakers table returns normally with the result
\* of mix(c, Discrete).
C10_SpeakersFallback ==
    [][\A bs \in Bufs, c \in MixArgs :
          (/\ ValidCount(bs) /\ MixAsserts(c) /\ Unsupported(bufs[bs], c)
           /\ Mix(bs, c, Speakers)) =>
              /\ ~panicked'
              /\ bufs'[bs] = mix(World, bufs[bs], c, Discrete).buf]_vars

\* No block left the free list and none was created in the step; blocks may
\* have been pushed.
TookNone ==
    /\ nblocks' = nblocks /\ fresh' = fresh
    /\ Len(pool') >= Len(pool) /\ SubSeq(pool', 1, Len(pool)) = pool

\* C11: Discrete mixing truncates or zero-extends.  After a mix(c, Discrete)
\* that returned, on a buffer with n channels, the count is c, channels [0, min(n, c)) refer to
\* the blocks they referred to, every channel in [n, c) is the silence block,
\* with c = n the buffer is unchanged, no sample changes and no block is
\* taken from the pool.
C11_DiscreteMix ==
    [][\A bs \in Bufs : (op'.name = "mix" /\ op'.b = bs /\ op'.ci = Discrete) =>
          /\ bufs'[bs].channel_count = op'.n
          /\ \A i \in Chans : (i < bufs[bs].channel_count /\ i < op'.n) =>
                bufs'[bs].channels[i] = bufs[bs].channels[i]
          /\ \A i \in Chans : (bufs[bs].channel_count <= i /\ i < op'.n) =>
                is_silent(bufs'[bs].channels[i])
          /\ (op'.n = bufs[bs].channel_count) =>
                (bufs'[bs] = bufs[bs] /\ pool' = pool /\ rc' = rc)
          /\ data' = data
          /\ TookNone]_vars

\* C11 witness: a Discrete upmix put the silence block in the first channel
\* beyond the old count, next to a channel that still holds its pool block.
C11_Witness ==
    /\ op.name = "mix" /\ op.ci = Discrete
    /\ op.before # NoBuf /\ op.before.channel_count < op.n
    /\ is_silent(bufs[op.b].channels[op.before.channel_count])
    /\ ~is_silent(bufs[op.b].channels[0])
    /\ bufs[op.b].channel_count = op.n

CarriesMono(bs, i) == data'[bufs'[bs].channels[i]] = data[bufs[bs].channels[0]]

\* After the step, the single channel of bs is the sample-wise average of
\* left and right; the right block, the left block where it had another
\* owner, and the block of every ChannelData variable show the samples they
\* showed.
AveragedStereo(bs) ==
    /\ data'[bufs'[bs].channels[0]] =
          [i \in 1..LEN |-> (data[bufs[bs].channels[0]][i]
                              + data[bufs[bs].channels[1]][i]) \div 2]
    /\ rc[bufs[bs].channels[0]] > 1 =>
          data'[bufs[bs].channels[0]] = data[bufs[bs].channels[0]]
    /\ rc'[bufs[bs].channels[1]] > 0 =>
          data'[bufs[bs].channels[1]] = data[bufs[bs].channels[1]]
    /\ \A s \in Live : ch'[s] = ch[s] /\ data'[ch[s]] = data[ch[s]]

\* The rows of the Speakers table as claimed, for a step from `from` to `to`
\* channels.
SpeakersRow(bs, from, to) ==
    CASE <<from, to>> = <<1, 2>> ->
            /\ bufs'[bs].channel_count = 2
            /\ CarriesMono(bs, 0) /\ CarriesMono(bs, 1)
      [] <<from, to>> = <<1, 4>> ->
            /\ bufs'[bs].channel_count = 4
            /\ CarriesMono(bs, 0) /\ CarriesMono(bs, 1)
            /\ is_silent(bufs'[bs].channels[2]) /\ is_silent(bufs'[bs].channels[3])
      [] <<from, to>> = <<1, 6>> ->
            /\ bufs'[bs].channel_count = 6
            /\ CarriesMono(bs, 2)
            /\ \A i \in {0, 1, 3, 4, 5} : is_silent(bufs'[bs].channels[i])
      [] <<from, to>> = <<2, 1>> ->
            /\ bufs'[bs].channel_count = 1
            /\ AveragedStereo(bs)
      [] OTHER -> TRUE

\* C13 as claimed: a Speakers mix between the supported pairs yields the
\* table's rows: 1->2 and 1->4 copy the mono input to left and right (the
\* surrounds silent), 1->6 puts it on the centre with the five other channels
\* silent, 2->1 averages left and right and leaves their blocks as seen
\* through other handles unchanged.
C13_SpeakersTable ==
    [][\A bs \in Bufs : (op'.name = "mix" /\ op'.b = bs /\ op'.ci = Speakers) =>
          (bufs[bs].channel_count = op'.n \/ SpeakersRow(bs, bufs[bs].channel_count, op'.n))]_vars

\* After the step, buffer bs and the samples of its channels are as before.
BufferKept(bs) ==
    /\ bufs'[bs] = bufs[bs]
    /\ \A i \in Chans : data'[bufs[bs].channels[i]] = data[bufs[bs].channels[i]]

\* After the step, br has c channels and its channel i holds the sample-wise
\* sum of channel i of ms and channel i of mo (the two operands, each a
\* result of mix to c channels).
SumOfMixed(br, c, ms, mo) ==
    /\ bufs'[br].channel_count = c
    /\ \A i \in 0..(c - 1) :
          data'[bufs'[br].channels[i]] =
              [k \in 1..LEN |-> ms.w.data[ms.buf.channels[i]][k]
                                + mo.w.data[mo.buf.channels[i]][k]]

\* C14 as claimed: br = bs.add(&bt, ci) is a buffer with
\* max(channels(bs), channels(bt)) channels whose channel i is the sample-wise
\* sum of channel i of bs and channel i of bt, each first mixed to that
\* count; bs and bt are unchanged.
C14_BufferAdd ==
    [][\A br, bs, bt \in Bufs :
          (op'.name = "buf_add" /\ op'.b = br /\ op'.self = bs /\ op'.other = bt) =>
              /\ SumOfMixed(br, Max(bufs[bs].channel_count, bufs[bt].channel_count),
                     mix(World, bufs[bs],
                         Max(bufs[bs].channel_count, bufs[bt].channel_count), op'.ci),
                     mix(World, bufs[bt],
                         Max(bufs[bs].channel_count, bufs[bt].channel_count), op'.ci))
              /\ (br # bs => BufferKept(bs))
              /\ (br # bt => BufferKept(bt))]_vars

\* ---------------------------------------------------------------- node ids
\* The ids allocated strictly increase in the order of their allocation (so no
\* id is allocated twice).
StrictlyIncreasing(ids) == \A i, j \in 1..Len(ids) : i < j => ids[i] < ids[j]

\* The ids allocated by ConcreteBaseAudioContext::new are exactly the
\* destination, the listener and the listener params.
ReservedAllocated ==
    /\ Len(allocated) >= LISTENER_PARAM_IDS_end
    /\ {allocated[i] : i \in 1..LISTENER_PARAM_IDS_end} =
            {DESTINATION_NODE_ID, LISTENER_NODE_ID} \cup LISTENER_PARAM_IDS

\* C15: constructing a context allocates exactly the ids 0 (the destination,
\* registered first), 1 (the listener) and 2..=10 (the params registered
\* inside the listener's registration), and construction ends with the counter
\* at 11; every id allocated afterwards, by any thread, is at least 11, and
\* the ids allocated are strictly increasing in the order of allocation,
\* hence distinct.
C15_NodeIds ==
    /\ phase # "panicked"
    /\ StrictlyIncreasing(allocated)
    /\ Len(allocated) = node_id_inc
    /\ phase = "new" =>
            /\ node_id_inc <= LISTENER_PARAM_IDS_end
            /\ \A i \in 1..Len(frames[MainThread]) :
                    frames[MainThread][i].id =
                        IF Len(allocated) = 1 THEN DESTINATION_NODE_ID
                        ELSE IF i = 1 THEN LISTENER_NODE_ID
                        ELSE allocated[Len(allocated)]
            /\ Len(frames[MainThread]) = MaxDepth =>
                    frames[MainThread][MaxDepth].id \in LISTENER_PARAM_IDS
    /\ op.name = "new" => node_id_inc = LISTENER_PARAM_IDS_end
    /\ phase = "built" =>
            /\ ReservedAllocated
            /\ \A i \in 1..Len(allocated) :
                    i > LISTENER_PARAM_IDS_end => allocated[i] >= LISTENER_PARAM_IDS_end

\* Two threads are inside register() at once, after construction, each with
\* the id it drew.
C15_Witness ==
    /\ phase = "built"
    /\ \A t \in Threads : Len(frames[t]) = 1
    /\ node_id_inc = LISTENER_PARAM_IDS_end + 2

\* ---------------------------------------------------------------- FreeWhenFinished
\* The reserved ids: the destination, the listener and the listener params.
Reserved == 0..10

\* The messages of one type on the channel.
OnChannel(type) ==
    {i \in 1..Len(render_channel) : render_channel[i].msg.type = type}

NoReservedFreed ==
    \A i \in OnChannel("FreeWhenFinished") : render_channel[i].msg.id \notin Reserved

\* The step is a call mark_node_dropped(id); it sent `sent` messages, the
\* last of them being FreeWhenFinished{id} if there is one.
DroppedSending(id, sent) ==
    /\ op'.name = "mark_node_dropped" /\ op'.id = id
    /\ Len(render_channel') = Len(render_channel) + sent
    /\ SubSeq(render_channel', 1, Len(render_channel)) = render_channel
    /\ sent = 1 => render_channel'[Len(render_channel')].msg = FreeWhenFinished(id)

\* C16: mark_node_dropped(id) appends exactly one FreeWhenFinished{id} to the
\* render channel when id is not reserved and leaves the channel as it is
\* when id is 0, 1 or in 2..=10; no FreeWhenFinished of a reserved id is ever
\* on the channel, the drops made while the context is constructed included.
C16_FreeWhenFinished ==
    /\ [] NoReservedFreed
    /\ [][op'.name = "mark_node_dropped" =>
            DroppedSending(op'.id, IF op'.id \in Reserved THEN 0 ELSE 1)]_vars

\* A node registered after construction was dropped, after the eleven drops
\* of reserved handles that construction makes, and its message is the last
\* on the channel.
C16_Witness ==
    /\ phase = "built"
    /\ op.name = "mark_node_dropped"
    /\ op.id \notin Reserved
    /\ Len(render_channel) = op.before + 1
    /\ render_channel[Len(render_channel)].msg = FreeWhenFinished(op.id)

\* ---------------------------------------------------------------- deferred listener
ListenerIds == 1..10

\* Positions of the RegisterNode messages of the listener and its params.
ListenerRegistered ==
    {i \in OnChannel("RegisterNode") : render_channel[i].msg.id \in ListenerIds}

\* What the step appended to the render channel.
Placed ==
    IF Len(render_channel') >= Len(render_channel)
       /\ SubSeq(render_channel', 1, Len(render_channel)) = render_channel
    THEN [i \in 1..(Len(render_channel') - Len(render_channel)) |->
            render_channel'[Len(render_channel) + i].msg]
    ELSE <<[type |-> "reordered"]>>

\* The first call of ensure_audio_listener_present: the ten RegisterNode
\* messages, then the nine param-to-listener ConnectNode messages, then the
\* ConnectNode from the listener to the destination on input usize::MAX.
ListenerReleased(placed) ==
    /\ ListenerRegistered = {}
    /\ Len(placed) = 20
    /\ {placed[i] : i \in 1..10} = {RegisterNode(id) : id \in ListenerIds}
    /\ {placed[i] : i \in 11..19} = {ConnectNode(param, 1, 0, usize_MAX) : param \in 2..10}
    /\ placed[20] = ConnectNode(1, 0, 0, usize_MAX)

\* C17: a RegisterNode of the listener or of one of its params (ids 1..=10) is
\* placed on the render channel by no step but the first call of
\* ensure_audio_listener_present, which places all ten, then the queued
\* param-to-listener ConnectNode messages, then one ConnectNode from the
\* listener to the destination on input usize::MAX; later calls place
\* nothing; register() of any other node places its RegisterNode at once.
C17_DeferredListener ==
    [][/\ (op'.name = "ensure_audio_listener_present" /\ op'.released)
            => ListenerReleased(Placed)
       /\ (op'.name = "ensure_audio_listener_present" /\ ~op'.released)
            => (Placed = <<>> /\ ListenerRegistered # {})
       /\ op'.name # "ensure_audio_listener_present"
            => \A i \in 1..Len(Placed) :
                    ~(Placed[i].type = "RegisterNode" /\ Placed[i].id \in ListenerIds)
       /\ (op'.name = "registered" /\ op'.id \notin ListenerIds)
            => (Len(Placed) >= 1 /\ Placed[1] = RegisterNode(op'.id))
       /\ (op'.name = "registered" /\ op'.id \in ListenerIds)
            => Placed = <<>>]_vars

\* The first call has been made: the twenty messages are on the channel,
\* after the RegisterNode of the destination that register() placed at once.
C17_Witness ==
    /\ op.name = "ensure_audio_listener_present"
    /\ op.released
    /\ Len(render_channel) = op.before + 20
    /\ Cardinality(ListenerRegistered) = 10
    /\ render_channel[1].msg = RegisterNode(0)

\* ---------------------------------------------------------------- deferred connect
\* C18: every ConnectNode on the render channel is preceded there by the
\* RegisterNode of its target `to`: connect() holds the message back while the
\* registration of `to` is unknown or still buffered.
C18_ConnectAfterRegister ==
    \A i \in OnChannel("ConnectNode") :
        \E j \in 1..(i - 1) : render_channel[j].msg = RegisterNode(render_channel[i].msg.to)

\* ---------------------------------------------------------------- order of messages
\* The functions through which a thread passes graph mutations and param
\* events.
CallFns == {"connect", "disconnect_from", "disconnect", "pass_audio_param_event"}

\* The messages thread t placed on the channel through those functions, in
\* the order of the channel, from entry i on.
RECURSIVE PlacedBy(_, _)
PlacedBy(t, i) ==
    IF i > Len(render_channel) THEN <<>>
    ELSE IF render_channel[i].by = t /\ render_channel[i].fn \in CallFns
    THEN <<render_channel[i].msg>> \o PlacedBy(t, i + 1)
    ELSE PlacedBy(t, i + 1)

\* C19: for each control thread, the AudioParamEvent, ConnectNode,
\* DisconnectNode and DisconnectAll messages it issued with
\* pass_audio_param_event, connect, disconnect_from and disconnect are on the
\* render channel in exactly the order of its calls (so two events for one
\* param are in call order, and no event passes a graph mutation).
C19_CallOrder == \A t \in Threads : PlacedBy(t, 1) = calls[t]

\* One thread has passed a param event and then a graph mutation, and the
\* other thread has a message on the channel too.
C19_Witness ==
    \E t \in Threads :
        /\ Len(calls[t]) >= 2
        /\ calls[t][1].type = "AudioParamEvent"
        /\ calls[t][2].type \in {"ConnectNode", "DisconnectNode", "DisconnectAll"}
        /\ \E u \in Threads \ {t}, i \in 1..Len(render_channel) : render_channel[i].by = u

\* ---------------------------------------------------------------- destination
\* What one call of set_channel_count leaves: a failed call leaves the count
\* as it was, a call that succeeds leaves it at v.
CountAfterCall ==
    /\ op'.err # "none" => channel_count' = channel_count
    /\ op'.err = "none" => channel_count' = op'.v

CountInRange == phase = "built" => channel_count \in 1..max_channel_count

C21_DestinationCountMode ==
    [][/\ op'.name = "set_channel_count_mode" => op'.err = "InvalidStateError"
       /\ phase' = "built" =>
            channel_config' = [mode |-> Explicit, interpretation |-> Speakers]]_vars

\* A mode other than Explicit was asked for after set_channel_count had
\* changed the count.
C21_Witness ==
    /\ op.name = "set_channel_count_mode" /\ op.v # Explicit
    /\ channel_count # max_channel_count
    /\ channel_config.mode = Explicit

\* ---------------------------------------------------------------- C22
\* C22: set_type(Custom) on an oscillator always fails with InvalidStateError,
\* whatever the current type, and leaves the oscillator type unchanged.
C22_SetTypeCustom ==
    [][op'.name = "set_type" /\ op'.v = Custom =>
            /\ op'.err = "InvalidStateError"
            /\ type_(atomic', osc'.node) = type_(atomic, osc.node)]_vars

\* set_type(Custom) was refused on an oscillator whose type an earlier
\* set_type had changed.
C22_Witness ==
    /\ op.name = "set_type" /\ op.v = Custom /\ op.err = "InvalidStateError"
    /\ type_(atomic, osc.node) = Square

\* ---------------------------------------------------------------- C23
\* C23: once the type of an oscillator is Custom it stays Custom, whatever
\* set_type and set_periodic_wave calls follow; set_periodic_wave, and a
\* periodic wave given in the options, make it Custom; before that,
\* set_type(t) with a standard waveform makes type_() return t.
C23_CustomAbsorbing ==
    [][/\ osc # NoOsc /\ type_(atomic, osc.node) = Custom =>
            type_(atomic', osc'.node) = Custom
       /\ \/ op'.name = "set_periodic_wave"
          \/ op'.name = "OscillatorNode::new" /\ op'.options.periodic_wave # NoWave
          => type_(atomic', osc'.node) = Custom
       /\ /\ op'.name = "set_type" /\ op'.v # Custom
          /\ type_(atomic, osc.node) # Custom
          => type_(atomic', osc'.node) = op'.v /\ op'.err = "none"]_vars

\* set_type with a standard waveform returned on an oscillator made Custom by
\* set_periodic_wave, and the type is Custom.
C23_Witness ==
    /\ op.name = "set_type" /\ op.v = Square /\ op.err = "none"
    /\ type_(atomic, osc.node) = Custom
    /\ osc.renderer.periodic_wave # NoWave

\* ---------------------------------------------------------------- C24
\* The oscillator's process has just returned: its output is the quantum
\* that begins at current_time.
Rendered == op.name = "process" /\ op.node = "oscillator"

\* The schedule the renderer reads, and the time of frame i of the quantum.
StartTime == get_start_at(atomic, osc.renderer.scheduler)
StopTime == get_stop_at(atomic, osc.renderer.scheduler)
FrameTime(i) == current_time + (i - 1) * dt
NextBlockTime == current_time + RENDER_QUANTUM_SIZE * dt
InWindow(i) == StartTime <= FrameTime(i) /\ FrameTime(i) < StopTime

\* Sample i of the oscillator's output.
Out(i) == data[bufs[OscOut].channels[0]][i]

\* The phase of frame i, counted back from the phase the renderer is left
\* with: one increment per frame in the window.
PhaseAt(i) ==
    (osc.renderer.phase
        - op.phase_incr * Cardinality({j \in i..RENDER_QUANTUM_SIZE : InWindow(j)}))
    % TABLE_LENGTH_USIZE

\* C24: in every rendered quantum, each output sample whose frame time is
\* earlier than start_at, or not earlier than stop_at, is exactly 0, and each
\* sample whose frame time lies in [start_at, stop_at) carries the waveform
\* value; a quantum that ends at or before start_at, or begins after stop_at,
\* is output as the silent quantum.
C24_ScheduleWindow ==
    Rendered =>
        /\ \A i \in 1..RENDER_QUANTUM_SIZE :
                IF InWindow(i)
                THEN Out(i) = Generate(type_(atomic, osc.node), PhaseAt(i), op.phase_incr,
                                       osc.renderer.periodic_wave)
                ELSE Out(i) = 0
        /\ NextBlockTime <= StartTime \/ current_time > StopTime =>
                is_silent(bufs[OscOut].channels[0])

\* A quantum whose first frame is before the start time and whose second is
\* in the window: a zero, then a sample of the wave.
C24_Witness ==
    /\ Rendered
    /\ ~InWindow(1) /\ InWindow(2)
    /\ Out(1) = 0 /\ Out(2) # 0

\* ---------------------------------------------------------------- C25
\* C25: process returns true in every quantum that begins at or before
\* stop_at and false in every quantum that begins after stop_at, also for an
\* oscillator that was stopped without ever being started.
C25_FinishedSignal == Rendered => (op.ret <=> current_time <= StopTime)

\* ---------------------------------------------------------------- C26
\* C26: if start_at is earlier than the time of the quantum in which the
\* oscillator first plays (a negative start time included), the oscillator
\* starts at the first frame of that quantum with phase 0: no phase is skipped
\* for the time elapsed.
C26_StartInPast ==
    [][/\ turn = "oscillator" /\ turn' = "destination" /\ ~panicked'
       /\ ~osc.renderer.started
       /\ StartTime < current_time /\ current_time <= StopTime
       => /\ osc'.renderer.started <=> current_time < StopTime
          /\ \A i \in 1..RENDER_QUANTUM_SIZE :
                FrameTime(i) < StopTime =>
                    data'[bufs'[OscOut].channels[0]][i] =
                        Generate(type_(atomic, osc.node),
                                 ((i - 1) * op'.phase_incr) % TABLE_LENGTH_USIZE,
                                 op'.phase_incr, osc'.renderer.periodic_wave)]_vars

\* The oscillator, given a negative start time, has rendered its first
\* quantum: the second frame carries the wave one increment after phase 0.
C26_Witness ==
    /\ Rendered /\ current_time = 0 /\ StartTime < 0
    /\ FrameTime(2) < StopTime
    /\ osc.renderer.started
    /\ type_(atomic, osc.node) = Sine
    /\ Out(1) = 0 /\ Out(2) = SINETABLE[op.phase_incr + 1]

\* ---------------------------------------------------------------- C27
\* C27: calling start_at a second time on the same source, or with t < 0, is
\* signalled as a user error and leaves the stored start time unchanged.
C27_InvalidScheduling ==
    [][/\ op'.name = "start_at"
       /\ \/ get_start_at(atomic, osc.node.scheduler) # f64_MAX
          \/ get_start_at(atomic', osc.node.scheduler) < 0
       => /\ op'.err # "none"
          /\ get_start_at(atomic', osc.node.scheduler)
                = get_start_at(atomic, osc.node.scheduler)]_vars

\* ---------------------------------------------------------------- C28
\* C28: after every process call of the oscillator its output quantum has
\* exactly 1 channel; after every process call of the destination its output
\* equals its input quantum and the call returned true; in all cases the
\* output quantum has between 1 and 32 channels.
C28_OutputShape ==
    op.name = "process" =>
        IF op.node = "oscillator"
        THEN bufs[OscOut].channel_count = 1
        ELSE /\ bufs[DestOut] = bufs[OscOut]
             /\ op.ret
             /\ bufs[DestOut].channel_count \in 1..MAX_CHANNELS

\* The oscillator has played into a buffer that had two channels.
C28_Witness ==
    /\ Rendered /\ op.ret
    /\ ~is_silent(bufs[OscOut].channels[0])
    /\ bufs[DestOut].channel_count = 2
    /\ bufs[OscOut].channel_count = 1

\* ---------------------------------------------------------------- C29
\* The Controllers that exist.
Made(cs) == {h \in ControllerVars : cs[h] # NoController}

\* The times at which the quanta of a rendering begin.
QuantumTimes == {q * dt * RENDER_QUANTUM_SIZE : q \in 0..MaxQuanta}

\* C29: a new Controller has loop disabled, loop_start 0 and loop_end at
\* f64::MAX; a new Scheduler has start_at and stop_at at f64::MAX, so that a
\* source that is never started is inactive in every quantum; each setter
\* changes only its own field and the getter returns the last value stored,
\* also through a clone of the Scheduler or Controller.
C29_InitialAndSetters ==
    [][/\ op'.name = "Controller::new" =>
            /\ get(atomic', controllers'["c"], "loop_") = FALSE
            /\ get(atomic', controllers'["c"], "loop_start") = 0
            /\ get(atomic', controllers'["c"], "loop_end") = f64_MAX
            /\ get_start_at(atomic', controllers'["c"].scheduler) = f64_MAX
            /\ get_stop_at(atomic', controllers'["c"].scheduler) = f64_MAX
       /\ op'.name = "OscillatorNode::new" =>
            /\ get_start_at(atomic', osc'.renderer.scheduler) = f64_MAX
            /\ get_stop_at(atomic', osc'.renderer.scheduler) = f64_MAX
       /\ osc' # NoOsc /\ get_start_at(atomic', osc'.node.scheduler) = f64_MAX =>
            \A t \in QuantumTimes :
                Finished(get_start_at(atomic', osc'.renderer.scheduler),
                         get_stop_at(atomic', osc'.renderer.scheduler), t) = "idle"
       /\ op'.name = "set" =>
            \A h \in Made(controllers) :
                /\ get(atomic', controllers'[h], op'.field) = op'.v
                /\ \A f \in ControllerFields \ {op'.field} :
                        get(atomic', controllers'[h], f) = get(atomic, controllers[h], f)
                /\ get_start_at(atomic', controllers'[h].scheduler)
                        = get_start_at(atomic, controllers[h].scheduler)
                /\ get_stop_at(atomic', controllers'[h].scheduler)
                        = get_stop_at(atomic, controllers[h].scheduler)
       /\ op'.name = "start_at" =>
            /\ get_start_at(atomic', osc'.renderer.scheduler) = op'.when
            /\ get_stop_at(atomic', osc'.renderer.scheduler)
                    = get_stop_at(atomic, osc.renderer.scheduler)
       /\ op'.name = "stop_at" =>
            /\ get_stop_at(atomic', osc'.renderer.scheduler) = op'.when
            /\ get_start_at(atomic', osc'.renderer.scheduler)
                    = get_start_at(atomic, osc.renderer.scheduler)
       /\ op'.name \in {"start_at", "stop_at"} =>
            \A h \in Made(controllers), f \in ControllerFields :
                get(atomic', controllers'[h], f) = get(atomic, controllers[h], f)]_vars

\* loop_start was set while the original and its clone exist, and is read
\* through the original; the oscillator made meanwhile was stopped and never
\* started.
C29_Witness ==
    /\ op.name = "set" /\ op.field = "loop_start"
    /\ Made(controllers) = ControllerVars
    /\ get(atomic, controllers["c"], "loop_start") = 1
    /\ get(atomic, controllers["c"], "loop_end") = f64_MAX
    /\ get(atomic, controllers["c"], "duration") = 1
    /\ osc # NoOsc /\ StartTime = f64_MAX /\ StopTime = 1

\* ---------------------------------------------------------------- C30
\* The queued messages that wait for the node id, and the others, in the
\* order of the list.
WaitingFor(queued, id) ==
    SelectSeq(queued, LAMBDA m : m.type = "ConnectNode" /\ m.to = id)
NotWaitingFor(queued, id) ==
    SelectSeq(queued, LAMBDA m : ~(m.type = "ConnectNode" /\ m.to = id))

\* The RegisterNode of id is on the channel before position i.
RegisteredBefore(chan, i, id) ==
    \E j \in 1..(i - 1) : chan[j].msg.type = "RegisterNode" /\ chan[j].msg.id = id

\* The step placed the messages that waited for id, after the RegisterNode
\* messages of their two ends and in the order of the list, and left the
\* others queued in their order.
Releases(id) ==
    /\ queued_messages' = NotWaitingFor(queued_messages, id)
    /\ \E k \in 1..(Len(Placed) + 1) :
        /\ SubSeq(Placed, k, k + Len(WaitingFor(queued_messages, id)) - 1)
                = WaitingFor(queued_messages, id)
        /\ \A i \in k..(k + Len(WaitingFor(queued_messages, id)) - 1) :
            /\ RegisteredBefore(render_channel', Len(render_channel) + i, Placed[i].from)
            /\ RegisteredBefore(render_channel', Len(render_channel) + i, Placed[i].to)
    /\ \A i \in 1..Len(render_channel) :
            render_channel[i].msg \notin
                {queued_messages[j] : j \in 1..Len(queued_messages)}

\* The step released no queued message: the list is the same, or one
\* message longer, and nothing that resolve_queued_control_msgs sends was placed.
ReleasesNone ==
    /\ Len(queued_messages') >= Len(queued_messages)
    /\ SubSeq(queued_messages', 1, Len(queued_messages)) = queued_messages
    /\ \A i \in (Len(render_channel) + 1)..Len(render_channel') :
            render_channel'[i].fn # "resolve_queued_control_msgs"

\* C30 as stated: a ConnectNode queued by queue_audio_param_connect(param,
\* node) is placed on the render channel once, after the RegisterNode
\* messages of the param and of the owning node, by the register() call of
\* that owning node; no other step releases it, and the messages that stay
\* queued keep their relative order.
C30_ReleasedByRegister ==
    [][IF op'.name = "registered" THEN Releases(op'.id) ELSE ReleasesNone]_vars

\* C30, amended: the register() call of the owning node releases it, unless
\* the owner is the AudioListener, whose register() releases nothing: the
\* connections of the listener's params are released by the first
\* ensure_audio_listener_present, after the buffered RegisterNode messages.
C30_ParamConnectRelease ==
    [][IF op'.name = "registered" /\ ~IsListenerId(op'.id) THEN Releases(op'.id)
       ELSE IF op'.name = "ensure_audio_listener_present" /\ op'.released
       THEN Releases(LISTENER_NODE_ID)
       ELSE ReleasesNone]_vars

\* The register() of a node made after construction has released the
\* connection of its param, while the connections of the listener's params
\* are still queued.
C30_Witness ==
    /\ op.name = "registered" /\ op.id >= LISTENER_PARAM_IDS_end
    /\ Len(render_channel) >= 1
    /\ render_channel[Len(render_channel)].fn = "resolve_queued_control_msgs"
    /\ render_channel[Len(render_channel)].msg.to = op.id
    /\ WaitingFor(queued_messages, LISTENER_NODE_ID) # <<>>
    /\ RegisteredBefore(render_channel, Len(render_channel),
                        render_channel[Len(render_channel)].msg.from)

\* ---------------------------------------------------------------- C31
\* C31: the RegisterNode messages of the listener, buffered during the
\* construction of the context, are released by ensure_audio_listener_present
\* oldest first: they come onto the render channel in the order in which they
\* were buffered.
C31_FifoRelease ==
    [][op'.name = "ensure_audio_listener_present" /\ op'.released =>
            SubSeq(Placed, 1, Len(queued_audio_listener_msgs))
                = queued_audio_listener_msgs]_vars

\* ---------------------------------------------------------------- C33
\* C33: in every interleaving of a set_periodic_wave call of the control
\* thread with the process calls of the render thread, the renderer that
\* finds the type Custom holds a periodic wave: a process call on an
\* oscillator that is playing, made while set_periodic_wave is between its
\* store of the type and its send of the wave, does not unwrap None in
\* generate_custom.
C33_WaveHeldWhenCustom ==
    [][/\ turn = "oscillator" /\ turn' = "destination"
       /\ osc.renderer.started /\ osc.sending # NoWave
       => op'.name # "panic"]_vars

\* ---------------------------------------------------------------- C34
\* C34: a set_periodic_wave call completes without waiting for the render
\* thread, however many waves were sent before and whether or not the renderer
\* has taken them: whenever the call has reached its send, the channel has
\* room for the wave.
C34_SendNeverWaits ==
    osc # NoOsc /\ osc.sending # NoWave => Len(osc.channel) < ChannelCap

\* ---------------------------------------------------------------- C35
\* C35: for every frequency and detune within the declared ranges the phase of
\* the oscillator is in [0, 1) before every sample is generated, so that the
\* index computed from it is within the lookup table: between two quanta the
\* phase is within one period, and process has not panicked.
C35_PhaseBound ==
    /\ osc # NoOsc => osc.renderer.phase \in 0..(TABLE_LENGTH_USIZE - 1)
    /\ ~(op.name = "panic" /\ op.call = "process")

\* ---------------------------------------------------------------- C36
\* The first frame of the quantum whose time is not before the start time.
FirstFrame ==
    CHOOSE i \in 1..RENDER_QUANTUM_SIZE :
        /\ FrameTime(i) >= StartTime
        /\ \A j \in 1..(i - 1) : FrameTime(j) < StartTime

\* C36: in the quantum in which the oscillator starts, at a start time that
\* is not in the past, the frames before the start time are exactly 0 and the
\* first sample is rendered at the first frame whose time is >= start_at,
\* with the phase phase_incr * (frame time - start_at) / dt: a fraction of an
\* increment when start_at falls between two frames, 0 when it falls on a
\* frame.
C36_SubSampleStart ==
    [][/\ turn = "oscillator" /\ turn' = "destination"
       /\ ~osc.renderer.started /\ osc'.renderer.started /\ ~panicked'
       /\ StartTime >= current_time
       => /\ \A j \in 1..(FirstFrame - 1) : data'[bufs'[OscOut].channels[0]][j] = 0
          /\ data'[bufs'[OscOut].channels[0]][FirstFrame] =
                Generate(type_(atomic, osc.node),
                         (op'.phase_incr * (FrameTime(FirstFrame) - StartTime)) \div dt,
                         op'.phase_incr, osc'.renderer.periodic_wave)
          /\ FrameTime(FirstFrame) = StartTime =>
                data'[bufs'[OscOut].channels[0]][FirstFrame] =
                    Generate(type_(atomic, osc.node), 0, op'.phase_incr,
                             osc'.renderer.periodic_wave)]_vars

\* The oscillator started half a frame after the first frame of the quantum:
\* the first frame is 0 and the second carries the sine half an increment
\* after phase 0.
C36_Witness ==
    /\ Rendered /\ current_time = 0 /\ StartTime = 1
    /\ osc.renderer.started
    /\ type_(atomic, osc.node) = Sine
    /\ Out(1) = 0
    /\ Out(2) = SINETABLE[op.phase_incr \div 2 + 1] /\ Out(2) # SINETABLE[1]

\* ---------------------------------------------------------------- C37
\* The blocks that a channel of buffer bs at or above its channel count refers
\* to and that no ChannelData variable and no channel in use of any buffer
\* refers to.
OnlyInactive(bs) ==
    {b \in 1..nblocks :
        /\ b # zeroes
        /\ \E i \in Chans : i >= bufs[bs].channel_count /\ bufs[bs].channels[i] = b
        /\ \A s \in Live : ch[s] # b
        /\ \A x \in Bufs : bufs[x] # NoBuf =>
               \A i \in Chans : i < bufs[x].channel_count => bufs[x].channels[i] # b}

\* The blocks in the free list.
InFreeList == {pool[k] : k \in 1..Len(pool)}

\* C37 as claimed: once make_silent, force_mono or a down-mix has lowered the
\* channel count of a buffer to c, every block that only channels at index c
\* or above refer to is back in the free list.
C37_NoBlockRetained ==
    [][\A bs \in Bufs :
          /\ op'.name \in {"make_silent", "force_mono", "mix"} /\ op'.b = bs
          /\ bufs'[bs].channel_count < bufs[bs].channel_count
          => OnlyInactive(bs)' \subseteq InFreeList']_vars

\* ---------------------------------------------------------------- C39
\* Block b is referred to by a ChannelData variable or by a channel of a
\* buffer.
Referenced(b) ==
    \/ \E s \in Live : ch[s] = b
    \/ \E x \in Bufs : bufs[x] # NoBuf /\ \E i \in Chans : bufs[x].channels[i] = b

\* C39: free list exclusivity.  Every block in the free list has the free
\* list as its only owner, is there once and is not the silence block; the
\* block returned by allocate() has the new handle as its only owner, no
\* other handle refers to it and it is no longer in the free list.
C39_FreeListExclusive ==
    /\ [](\A k \in 1..Len(pool) :
            /\ pool[k] # zeroes
            /\ rc[pool[k]] = 1
            /\ ~Referenced(pool[k])
            /\ \A j \in 1..Len(pool) : j # k => pool[j] # pool[k])
    /\ [][\A s \in Handles : (op'.name = "allocate" /\ op'.h = s) =>
            /\ rc'[ch'[s]] = 1
            /\ \A t \in Live' : t # s => ch'[t] # ch'[s]
            /\ ch'[s] \notin InFreeList']_vars

\* C39 witness: allocate() has handed out a block that went through the free
\* list (it was reclaimed and popped again) while another handle holds a
\* block of the pool.
C39_Witness ==
    /\ op.name = "allocate" /\ op.popped /\ fresh > 0
    /\ \E t \in Live : t # op.h /\ ~is_silent(ch[t])

\* ---------------------------------------------------------------- C38
\* C38: dropping a handle after shutdown is harmless.  Once the Receiver of
\* the render channel is gone, mark_node_dropped(id) returns without a panic
\* for every id, magic or not, and leaves the facade as it was: nothing is
\* put on the render channel or on the pending lists, the id counter and the
\* destination's configuration keep their values.
C38_DropAfterShutdown ==
    [][op'.name = "mark_node_dropped" /\ disconnected =>
            /\ phase' = "built"
            /\ UNCHANGED <<node_id_inc, render_channel, queued_messages,
                           queued_audio_listener_msgs, allocated, frames, offline,
                           max_channel_count, channel_count, channel_config,
                           disconnected>>]_vars

\* C38 witness: after the shutdown, the handle of a node that is not magic
\* was dropped while a FreeWhenFinished sent before the shutdown is on the
\* channel.
C38_Witness ==
    /\ disconnected /\ phase = "built"
    /\ op.name = "mark_node_dropped" /\ ~IsMagic(op.id)
    /\ op.id \notin Freed /\ Freed # {}

\* ---------------------------------------------------------------- C32
\* How often the message is on the render channel, and in the buffer of the
\* listener's registrations.
OnChannelTimes(message) ==
    Cardinality({i \in 1..Len(render_channel) : render_channel[i].msg = message})
BufferedTimes(message) ==
    Cardinality({i \in 1..Len(queued_audio_listener_msgs) :
                    queued_audio_listener_msgs[i] = message})

ListenerSentinel == ConnectNode(LISTENER_NODE_ID, DESTINATION_NODE_ID, 0, usize_MAX)

\* Entry i of the render channel is a connect of the listener to a panner.
IsPannerConnect(i) ==
    /\ render_channel[i].msg.type = "ConnectNode"
    /\ render_channel[i].msg.from = LISTENER_NODE_ID
    /\ render_channel[i].msg.to # DESTINATION_NODE_ID

\* The entries of thread t among them.
PannerConnectsOf(t) == {i \in 1..Len(render_channel) : IsPannerConnect(i) /\ render_channel[i].by = t}

\* C32: the listener is materialised once, whatever the interleaving of the
\* threads.  Each RegisterNode of the listener and of its params is either
\* still buffered or on the render channel, once; the ConnectNode from the
\* listener to the destination is on the channel at most once; once
\* ensure_audio_listener_present has returned to some thread, all ten
\* RegisterNode messages and that ConnectNode are on the channel; every
\* ConnectNode of connect_listener_to_panner is behind all ten RegisterNode
\* messages, and those of one thread connect outputs 0..8 to inputs 1..9 in
\* this order.
C32_ListenerOnce ==
    phase = "built" =>
        /\ \A id \in ListenerIds :
                OnChannelTimes(RegisterNode(id)) + BufferedTimes(RegisterNode(id)) = 1
        /\ OnChannelTimes(ListenerSentinel) <= 1
        /\ \A t \in Threads : in_call[t].ensured =>
                /\ \A id \in ListenerIds : OnChannelTimes(RegisterNode(id)) = 1
                /\ OnChannelTimes(ListenerSentinel) = 1
        /\ \A i \in 1..Len(render_channel) : IsPannerConnect(i) =>
                \A id \in ListenerIds :
                    \E j \in 1..(i - 1) : render_channel[j].msg = RegisterNode(id)
        /\ \A t \in Threads : \A i \in PannerConnectsOf(t) :
                LET k == Cardinality({j \in PannerConnectsOf(t) : j < i}) IN
                /\ render_channel[i].msg.output = (k % 9)
                /\ render_channel[i].msg.input = (k % 9) + 1

\* C32 witness: a thread that found the mutex held and released nothing has
\* placed its nine connects behind the messages the other thread released,
\* and the other thread has called ensure_audio_listener_present once more
\* meanwhile.
C32_Witness ==
    \E t, u \in Threads :
        /\ t # u
        /\ in_call[t] = Outside(TRUE, 2) /\ in_call[u] = Outside(TRUE, 2)
        /\ Cardinality(PannerConnectsOf(t)) = 9
        /\ \A i \in 1..Len(render_channel) : render_channel[i].by = t => render_channel[i].fn # EnsureFn
        /\ \E i \in 1..Len(render_channel) :
                render_channel[i].msg = ListenerSentinel /\ render_channel[i].by = u

====
